---- MODULE Spec2Model ----
(***************************************************************************)
(* State-machine model of tablestore-odm: the value converter              *)
(* (type-converter.ts), the schema descriptor (schema.ts) and the two      *)
(* query builders (range-query-builder.ts, search-query-builder.ts).       *)
(*                                                                         *)
(* JavaScript values are records of one uniform shape                      *)
(*     [t |-> tag, n |-> integer, s |-> characters, keys, kids]            *)
(* and JavaScript strings are sequences of one-character strings, so that  *)
(* toLocaleString, Number(..), Boolean(..), new Date(..), JSON.stringify   *)
(* and JSON.parse are computed character by character.                     *)
(***************************************************************************)
EXTENDS Integers, Sequences, FiniteSets, TLC

\* ------------------------------------------------------------------------
\* Bounds of the model
\* ------------------------------------------------------------------------
MaxInt == 12
MaxArrLen == 2
MaxDepth == 2
MaxChain == 2
MaxExecs == 2
MaxConns == 2
MaxCalls == 3

\* ------------------------------------------------------------------------
\* JavaScript values
\* ------------------------------------------------------------------------
Mk(t, n, s, keys, kids) == [t |-> t, n |-> n, s |-> s, keys |-> keys, kids |-> kids]

Undef == Mk("undefined", 0, <<>>, <<>>, <<>>)
Null == Mk("null", 0, <<>>, <<>>, <<>>)
NaN == Mk("NaN", 0, <<>>, <<>>, <<>>)
Bool(b) == Mk("bool", IF b THEN 1 ELSE 0, <<>>, <<>>, <<>>)
Num(n) == Mk("num", n, <<>>, <<>>, <<>>)
\* the number n + 1/2, a number that is not an integer
Half(n) == Mk("half", n, <<>>, <<>>, <<>>)
Str(s) == Mk("str", 0, s, <<>>, <<>>)
Arr(kids) == Mk("arr", 0, <<>>, <<>>, kids)
Obj(keys, kids) == Mk("obj", 0, <<>>, keys, kids)
DateV(ms) == Mk("date", ms, <<>>, <<>>, <<>>)
InvalidDate == Mk("invalidDate", 0, <<>>, <<>>, <<>>)
\* Tablestore.Long: a 64-bit integer cell value
Long(n) == Mk("Long", n, <<>>, <<>>, <<>>)
\* Tablestore.INF_MIN / Tablestore.INF_MAX: the open-ended key sentinels
INF_MIN == Mk("INF_MIN", 0, <<>>, <<>>, <<>>)
INF_MAX == Mk("INF_MAX", 0, <<>>, <<>>, <<>>)

IsNullish(v) == v.t \in {"undefined", "null"}

\* ------------------------------------------------------------------------
\* Characters and decimal text
\* ------------------------------------------------------------------------
Digits == <<"0", "1", "2", "3", "4", "5", "6", "7", "8", "9">>
IsDigit(c) == \E d \in 1..10 : Digits[d] = c
DigitVal(c) == (CHOOSE d \in 1..10 : Digits[d] = c) - 1

RECURSIVE DigitsOf(_)
DigitsOf(n) ==
  IF n < 10 THEN <<Digits[n + 1]>>
  ELSE Append(DigitsOf(n \div 10), Digits[(n % 10) + 1])

\* Number.prototype.toString / Int64.prototype.toString for integers
DecStr(n) == IF n < 0 THEN <<"-">> \o DigitsOf(0 - n) ELSE DigitsOf(n)

RECURSIVE DigitsValue(_, _)
DigitsValue(s, acc) ==
  IF s = <<>> THEN acc ELSE DigitsValue(Tail(s), acc * 10 + DigitVal(Head(s)))

AllDigits(s) == s /= <<>> /\ \A i \in 1..Len(s) : IsDigit(s[i])

\* Number(string): the StringToNumber conversion for integer decimal text.
\* The empty string is 0; anything that is not a signed run of digits
\* (a grouping comma, a letter) is NaN.
StringToNumber(s) ==
  IF s = <<>> THEN Num(0)
  ELSE IF AllDigits(s) THEN Num(DigitsValue(s, 0))
  ELSE IF Head(s) = "-" /\ AllDigits(Tail(s)) THEN Num(0 - DigitsValue(Tail(s), 0))
  ELSE NaN

\* Number.prototype.toLocaleString in the en-US locale: groups of three
\* digits separated by commas.
RECURSIVE GroupDigits(_)
GroupDigits(d) ==
  IF Len(d) <= 3 THEN d
  ELSE GroupDigits(SubSeq(d, 1, Len(d) - 3)) \o <<",">> \o SubSeq(d, Len(d) - 2, Len(d))

NumberToLocaleString(n) ==
  IF n < 0 THEN <<"-">> \o GroupDigits(DigitsOf(0 - n)) ELSE GroupDigits(DigitsOf(n))

\* value.toLocaleString() of a cell value.  String, Boolean and Int64 have
\* no locale formatting of their own: Object.prototype.toLocaleString calls
\* toString().
toLocaleString(v) ==
  CASE v.t = "str" -> v.s
    [] v.t = "bool" -> IF v.n = 1 THEN <<"t", "r", "u", "e">> ELSE <<"f", "a", "l", "s", "e">>
    [] v.t = "Long" -> DecStr(v.n)
    [] v.t = "num" -> NumberToLocaleString(v.n)
    [] v.t = "NaN" -> <<"N", "a", "N">>
    [] OTHER -> <<"[", "o", "b", "j", "e", "c", "t", "]">>

\* Boolean(value)
ToBoolean(v) ==
  CASE v.t \in {"undefined", "null", "NaN"} -> FALSE
    [] v.t = "bool" -> v.n = 1
    [] v.t = "num" -> v.n /= 0
    [] v.t = "str" -> v.s /= <<>>
    [] OTHER -> TRUE

\* new Date(string) for a string of digits.  Four digits are the ISO
\* year-only form (YYYY: midnight UTC of 1 January of that year, which is
\* epoch 0 for 1970 and lies outside the modelled millisecond range for any
\* other year); any other run of digits is not an ISO date-time string and
\* the engine's fallback parser rejects it (V8: Invalid Date for an
\* epoch-millisecond string).
DateOfYear(y) == IF y = 1970 THEN DateV(0) ELSE Mk("dateOfYear", y, <<>>, <<>>, <<>>)

DateFromString(s) ==
  IF AllDigits(s) /\ Len(s) = 4 THEN DateOfYear(DigitsValue(s, 0)) ELSE InvalidDate

\* ------------------------------------------------------------------------
\* JSON.stringify
\* ------------------------------------------------------------------------
Quote == "\""
Backslash == "\\"

RECURSIVE QuoteChars(_)
QuoteChars(s) ==
  IF s = <<>> THEN <<>>
  ELSE (IF Head(s) \in {Quote, Backslash} THEN <<Backslash, Head(s)>> ELSE <<Head(s)>>)
       \o QuoteChars(Tail(s))

JSONQuote_NoEscape(s) == <<Quote>> \o s \o <<Quote>>

\* the quoted form of a string: surrounding quotes, '"' and '\' escaped
JSONQuote(s) == <<Quote>> \o QuoteChars(s) \o <<Quote>>

RECURSIVE JSONStringify(_)
RECURSIVE StringifyElems(_, _)
RECURSIVE StringifyMembers(_, _, _)

\* the elements of an array from index i on, comma separated
StringifyElems(kids, i) ==
  IF i > Len(kids) THEN <<>>
  ELSE (IF i > 1 THEN <<",">> ELSE <<>>)
       \o (IF kids[i].t = "undefined" THEN <<"n", "u", "l", "l">> ELSE JSONStringify(kids[i]))
       \o StringifyElems(kids, i + 1)

\* the members of an object from index i on; a member whose value is
\* undefined is left out
StringifyMembers(keys, kids, i) ==
  IF i > Len(keys) THEN <<>>
  ELSE LET rest == StringifyMembers(keys, kids, i + 1) IN
       IF kids[i].t = "undefined" THEN rest
       ELSE JSONQuote(keys[i]) \o <<":">> \o JSONStringify(kids[i])
            \o (IF rest = <<>> THEN <<>> ELSE <<",">> \o rest)

JSONStringify(v) ==
  CASE v.t = "null" -> <<"n", "u", "l", "l">>
    [] v.t = "NaN" -> <<"n", "u", "l", "l">>
    [] v.t = "bool" -> IF v.n = 1 THEN <<"t", "r", "u", "e">> ELSE <<"f", "a", "l", "s", "e">>
    [] v.t = "num" -> DecStr(v.n)
    [] v.t = "str" -> JSONQuote(v.s)
    [] v.t = "arr" -> <<"[">> \o StringifyElems(v.kids, 1) \o <<"]">>
    [] v.t = "obj" -> <<"{">> \o StringifyMembers(v.keys, v.kids, 1) \o <<"}">>
    [] OTHER -> <<>>

\* ------------------------------------------------------------------------
\* JSON.parse: recursive descent over the characters.  A parse step returns
\* [ok, val, pos]: whether it succeeded, the value and the next position.
\* The number grammar is the integer part of JSON's (no fraction, no
\* exponent), which is what JSONStringify emits for the modelled numbers.
\* ------------------------------------------------------------------------
PFail == [ok |-> FALSE, val |-> Undef, pos |-> 0]
POk(v, p) == [ok |-> TRUE, val |-> v, pos |-> p]

RECURSIVE SkipWs(_, _)
SkipWs(s, i) == IF i <= Len(s) /\ s[i] = " " THEN SkipWs(s, i + 1) ELSE i

HasAt(s, i, w) == i + Len(w) - 1 <= Len(s) /\ SubSeq(s, i, i + Len(w) - 1) = w

RECURSIVE DigitsEnd(_, _)
DigitsEnd(s, i) == IF i <= Len(s) /\ IsDigit(s[i]) THEN DigitsEnd(s, i + 1) ELSE i

\* -?(0|[1-9][0-9]*)
ParseNumber(s, i) ==
  LET neg == s[i] = "-"
      b == IF neg THEN i + 1 ELSE i
      e == DigitsEnd(s, b)
      e1 == IF b <= Len(s) /\ s[b] = "0" THEN b + 1 ELSE e
  IN IF e = b THEN PFail
     ELSE LET m == DigitsValue(SubSeq(s, b, e1 - 1), 0) IN
          POk(Num(IF neg THEN 0 - m ELSE m), e1)

\* the characters after an opening quote up to the closing one
RECURSIVE ParseString(_, _, _)
ParseString(s, i, acc) ==
  IF i > Len(s) THEN PFail
  ELSE IF s[i] = Quote THEN POk(Str(acc), i + 1)
  ELSE IF s[i] = Backslash
    THEN IF i + 1 <= Len(s) /\ s[i + 1] \in {Quote, Backslash}
           THEN ParseString(s, i + 2, Append(acc, s[i + 1]))
           ELSE PFail
  ELSE ParseString(s, i + 1, Append(acc, s[i]))

RECURSIVE ParseValue(_, _)
RECURSIVE ParseElems(_, _, _)
RECURSIVE ParseMembers(_, _, _, _)

\* after "[" or after a ",": a value, then "," or "]"
ParseElems(s, i, acc) ==
  LET r == ParseValue(s, i) IN
  IF ~r.ok THEN PFail
  ELSE LET j == SkipWs(s, r.pos) IN
       IF j > Len(s) THEN PFail
       ELSE IF s[j] = "," THEN ParseElems(s, j + 1, Append(acc, r.val))
       ELSE IF s[j] = "]" THEN POk(Arr(Append(acc, r.val)), j + 1)
       ELSE PFail

\* after "{" or after a ",": "key" : value, then "," or "}"
ParseMembers(s, i, keys, kids) ==
  LET k0 == SkipWs(s, i) IN
  IF k0 > Len(s) \/ s[k0] /= Quote THEN PFail
  ELSE LET k == ParseString(s, k0 + 1, <<>>) IN
       IF ~k.ok THEN PFail
       ELSE LET c == SkipWs(s, k.pos) IN
            IF c > Len(s) \/ s[c] /= ":" THEN PFail
            ELSE LET r == ParseValue(s, c + 1) IN
                 IF ~r.ok THEN PFail
                 ELSE LET j == SkipWs(s, r.pos) IN
                      IF j > Len(s) THEN PFail
                      ELSE IF s[j] = ","
                        THEN ParseMembers(s, j + 1, Append(keys, k.val.s), Append(kids, r.val))
                      ELSE IF s[j] = "}"
                        THEN POk(Obj(Append(keys, k.val.s), Append(kids, r.val)), j + 1)
                      ELSE PFail

ParseValue(s, i0) ==
  LET i == SkipWs(s, i0) IN
  IF i > Len(s) THEN PFail
  ELSE CASE HasAt(s, i, <<"n", "u", "l", "l">>) -> POk(Null, i + 4)
         [] HasAt(s, i, <<"t", "r", "u", "e">>) -> POk(Bool(TRUE), i + 4)
         [] HasAt(s, i, <<"f", "a", "l", "s", "e">>) -> POk(Bool(FALSE), i + 5)
         [] s[i] = Quote -> ParseString(s, i + 1, <<>>)
         [] s[i] = "-" \/ IsDigit(s[i]) -> ParseNumber(s, i)
         [] s[i] = "[" ->
              LET j == SkipWs(s, i + 1) IN
              IF j <= Len(s) /\ s[j] = "]" THEN POk(Arr(<<>>), j + 1)
              ELSE ParseElems(s, i + 1, <<>>)
         [] s[i] = "{" ->
              LET j == SkipWs(s, i + 1) IN
              IF j <= Len(s) /\ s[j] = "}" THEN POk(Obj(<<>>, <<>>), j + 1)
              ELSE ParseMembers(s, i + 1, <<>>, <<>>)
         [] OTHER -> PFail

\* JSON.parse(text): ok = FALSE stands for the SyntaxError it throws
JSONParse(s) ==
  LET r == ParseValue(s, 1) IN
  IF r.ok /\ SkipWs(s, r.pos) > Len(s) THEN r ELSE PFail

\* ------------------------------------------------------------------------
\* Field declarations (zod types).  wrap lists the wrapper layers from the
\* outside in; typeName is the base type; isInt says whether a ZodNumber
\* carries the "int" check.
\* ------------------------------------------------------------------------
Decl(wrap, typeName, isInt) == [wrap |-> wrap, typeName |-> typeName, isInt |-> isInt]
NoDecl == Decl(<<>>, "none", FALSE)

Wrappers == {"ZodOptional", "ZodNullable", "ZodDefault", "ZodEffects"}

RECURSIVE getBaseZodTypeInfo(_)
getBaseZodTypeInfo(type) ==
  IF type.wrap /= <<>> /\ Head(type.wrap) \in Wrappers
    THEN getBaseZodTypeInfo([type EXCEPT !.wrap = Tail(@)])
    ELSE type

\* _def.typeName of a type: the outermost layer's name
TypeNameOf(type) == IF type.wrap /= <<>> THEN Head(type.wrap) ELSE type.typeName

isZodNumberIntInternal_NoInt(schema) == FALSE

isZodNumberIntInternal(schema) == schema.isInt

StructuredTypes == {"ZodArray", "ZodTuple", "ZodObject", "ZodRecord"}

\* Tablestore.Long.fromNumber
LongFromNumber(v) == Long(v.n)

\* ------------------------------------------------------------------------
\* type-converter.ts
\* ------------------------------------------------------------------------
jsToTablestore(value, zodType) ==
  IF zodType = NoDecl THEN value
  ELSE IF IsNullish(value) THEN Undef
  ELSE LET zodTypeInfo == getBaseZodTypeInfo(zodType)
           zodTypeName == TypeNameOf(zodTypeInfo)
       IN CASE zodTypeName = "ZodEnum" -> value
            [] zodTypeName = "ZodString" -> value
            [] zodTypeName = "ZodNumber" ->
                 IF isZodNumberIntInternal(zodTypeInfo) THEN LongFromNumber(value)
                 ELSE (IF value.t = "str" THEN StringToNumber(value.s) ELSE value)
            [] zodTypeName = "ZodBoolean" -> Bool(ToBoolean(value))
            [] zodTypeName = "ZodBigInt" -> LongFromNumber(value)
            [] zodTypeName = "ZodDate" -> LongFromNumber(Num(value.n))
            [] zodTypeName \in StructuredTypes -> Str(JSONStringify(value))
            [] OTHER -> value

\* z.number().safeParse(x).data, z.date().safeParse(x).data,
\* z.bigint().safeParse(x).data: the value when it has the type, else undefined
ZNumberData(v) == IF v.t = "num" THEN v ELSE Undef
ZDateData(v) == IF v.t \in {"date", "dateOfYear"} THEN v ELSE Undef
ZBigIntData(v) == IF v.t = "bigint" THEN v ELSE Undef

tablestoreToJs(value, zodTypeName) ==
  IF IsNullish(value) \/ zodTypeName = NoDecl THEN value
  ELSE IF value = INF_MIN \/ value = INF_MAX THEN Str(toLocaleString(value))
  ELSE LET baseType == getBaseZodTypeInfo(zodTypeName)
           typeName == TypeNameOf(baseType)
           localValue == toLocaleString(value)
       IN CASE typeName = "ZodString" -> Str(localValue)
            [] typeName = "ZodNumber" -> ZNumberData(StringToNumber(localValue))
            [] typeName = "ZodBoolean" -> Bool(ToBoolean(Str(localValue)))
            [] typeName = "ZodBigInt" -> ZBigIntData(StringToNumber(localValue))
            [] typeName = "ZodDate" -> ZDateData(DateFromString(localValue))
            [] typeName \in StructuredTypes ->
                 LET r == JSONParse(localValue) IN IF r.ok THEN r.val ELSE value
            [] OTHER -> value

\* ------------------------------------------------------------------------
\* schema.ts: the schema of the modelled table.  Optional values are
\* records [def |-> BOOLEAN, v |-> value]; def = FALSE is undefined.
\* ------------------------------------------------------------------------
NoName == [def |-> FALSE, v |-> ""]
SomeName(n) == [def |-> TRUE, v |-> n]

\* Object.keys(definition.shape), in declaration order
difinitionKeys == <<"category", "productId", "age", "name", "title", "updatedAt">>

definition ==
  [f \in {"category", "productId", "age", "name", "title", "updatedAt"} |->
     CASE f = "category" -> Decl(<<>>, "ZodString", FALSE)
       [] f = "productId" -> Decl(<<>>, "ZodNumber", TRUE)
       [] f = "age" -> Decl(<<"ZodOptional">>, "ZodNumber", TRUE)
       [] f = "name" -> Decl(<<"ZodOptional">>, "ZodString", FALSE)
       [] f = "title" -> Decl(<<>>, "ZodString", FALSE)
       [] f = "updatedAt" -> Decl(<<"ZodOptional">>, "ZodNumber", TRUE)]

primaryKeys == <<"category", "productId">>

GSIs ==
  << [indexName |-> "byAge", primaryKeys |-> <<"age", "category">>],
     [indexName |-> "byName", primaryKeys |-> <<"name", "productId", "category">>] >>

searchIndexs == << [indexName |-> "idx", fieldSchemas |-> <<"name", "age">>] >>

tableName == "products"

\* the properties a DbSchema instance has
DbSchemaProps ==
  {"definition", "primaryKeys", "difinitionKeys", "attributeKeys", "options",
   "GSIs", "searchIndexs", "timestamps"}

SeqToSet(q) == {q[i] : i \in 1..Len(q)}
Includes(q, x) == \E i \in 1..Len(q) : q[i] = x

RECURSIVE SeqFilterIn(_, _)
\* q.filter((key) => keep.includes(key))
SeqFilterIn(q, keep) ==
  IF q = <<>> THEN <<>>
  ELSE (IF Includes(keep, Head(q)) THEN <<Head(q)>> ELSE <<>>) \o SeqFilterIn(Tail(q), keep)

RECURSIVE SeqFilterOut(_, _)
SeqFilterOut(q, drop) ==
  IF q = <<>> THEN <<>>
  ELSE (IF Includes(drop, Head(q)) THEN <<>> ELSE <<Head(q)>>) \o SeqFilterOut(Tail(q), drop)

attributeKeys == SeqFilterOut(difinitionKeys, primaryKeys)

\* [...new Set(q)]: first occurrences, in order
RECURSIVE Dedup(_, _)
Dedup(q, seen) ==
  IF q = <<>> THEN seen
  ELSE Dedup(Tail(q), IF Includes(seen, Head(q)) THEN seen ELSE Append(seen, Head(q)))

getFieldSchema(fieldName) ==
  IF fieldName \in DOMAIN definition THEN definition[fieldName] ELSE NoDecl

isPrimaryKey(fieldName) == Includes(primaryKeys, fieldName)

getGsiPks(gsiIndexName) ==
  IF \E i \in 1..Len(GSIs) : GSIs[i].indexName = gsiIndexName
    THEN GSIs[CHOOSE i \in 1..Len(GSIs) :
                /\ GSIs[i].indexName = gsiIndexName
                /\ \A j \in 1..(i - 1) : GSIs[j].indexName /= gsiIndexName].primaryKeys
    ELSE <<>>

\* input[key] of a plain object given as a function on its own keys
Prop(input, key) == IF key \in DOMAIN input THEN input[key] ELSE Undef

Cell(name, value) == [name |-> name, value |-> value]

RECURSIVE PksLoop(_, _, _, _)
PksLoop(keys, input, output, errKeys) ==
  IF keys = <<>> THEN [output |-> output, missingKeys |-> errKeys]
  ELSE LET key == Head(keys)
           parsedValue == jsToTablestore(Prop(input, key), getFieldSchema(key))
       IN IF IsNullish(parsedValue)
            THEN PksLoop(Tail(keys), input, output, Append(errKeys, key))
            ELSE PksLoop(Tail(keys), input, Append(output, Cell(key, parsedValue)), errKeys)

PkOrder_BaseFirst(gsiIndexName) ==
  IF gsiIndexName.def /\ gsiIndexName.v /= ""
    THEN Dedup(primaryKeys \o getGsiPks(gsiIndexName.v), <<>>)
    ELSE primaryKeys

\* the key order convertToTablestorePks iterates
PkOrder(gsiIndexName) ==
  IF gsiIndexName.def /\ gsiIndexName.v /= ""
    THEN Dedup(getGsiPks(gsiIndexName.v) \o primaryKeys, <<>>)
    ELSE primaryKeys

convertToTablestorePks(input, gsiIndexName) ==
  LET r == PksLoop(PkOrder(gsiIndexName), input, <<>>, <<>>) IN
  [output |-> r.output, missingKeys |-> r.missingKeys, error |-> r.missingKeys /= <<>>]

\* _output[name] = value on a plain object kept as a list of cells
SetProp(obj, name, value) ==
  IF \E i \in 1..Len(obj) : obj[i].name = name
    THEN [i \in 1..Len(obj) |-> IF obj[i].name = name THEN Cell(name, value) ELSE obj[i]]
    ELSE Append(obj, Cell(name, value))

RECURSIVE CellsToJs(_, _)
CellsToJs(cells, output) ==
  IF cells = <<>> THEN output
  ELSE LET c == Head(cells)
           parsedValue == tablestoreToJs(c.value, getFieldSchema(c.name))
       IN CellsToJs(Tail(cells),
                    IF IsNullish(parsedValue) THEN output ELSE SetProp(output, c.name, parsedValue))

\* a row of a store response; def = FALSE is an absent row
Row(pk, attrs) == [def |-> TRUE, primaryKey |-> pk, attributes |-> attrs]
NoRow == [def |-> FALSE, primaryKey |-> <<>>, attributes |-> <<>>]

\* convertToJs(input): def = FALSE is the undefined it returns for no row
convertToJs(input) ==
  IF ~input.def THEN [def |-> FALSE, v |-> <<>>]
  ELSE [def |-> TRUE, v |-> CellsToJs(input.attributes, CellsToJs(input.primaryKey, <<>>))]

\* _schema.safeParse(value) for the declarations of the table: an optional
\* layer accepts undefined, a nullable layer null, and the base type accepts
\* a value of its own kind (an integer-flagged number only integers); no
\* declaration of the table coerces, so data is the value itself
safeParse(schema, value) ==
  LET base == getBaseZodTypeInfo(schema)
      layers == SeqToSet(schema.wrap)
      success ==
        \/ value.t = "undefined" /\ "ZodOptional" \in layers
        \/ value.t = "null" /\ "ZodNullable" \in layers
        \/ base.typeName = "ZodString" /\ value.t = "str"
        \/ base.typeName = "ZodNumber" /\ value.t = "num"
        \/ base.typeName = "ZodNumber" /\ value.t = "half" /\ ~base.isInt
        \/ base.typeName = "ZodBoolean" /\ value.t = "bool"
  IN [success |-> success, data |-> IF success THEN value ELSE Undef]

RECURSIVE AttributesLoop(_, _, _, _)
\* the loop of convertToTablestoreAttributes, lines 236-249
AttributesLoop(keys, input, output, errKeys) ==
  IF keys = <<>> THEN [output |-> output, errKeys |-> errKeys]
  ELSE LET key == Head(keys)
           schema == getFieldSchema(key)
           parsedValue == safeParse(schema, Prop(input, key))
       IN IF ~parsedValue.success
            THEN AttributesLoop(Tail(keys), input, output, Append(errKeys, key))
          ELSE IF ~ToBoolean(parsedValue.data)
            THEN AttributesLoop(Tail(keys), input, output, errKeys)
          ELSE AttributesLoop(Tail(keys), input,
                              Append(output, Cell(key, jsToTablestore(parsedValue.data, schema))),
                              errKeys)

\* error is null when errKeys is empty, else one Error whose message joins
\* errKeys; thrown = FALSE: the method has no throw statement
convertToTablestoreAttributes_FirstError(input) ==
  LET r == AttributesLoop(attributeKeys, input, <<>>, <<>>) IN
  [thrown |-> FALSE, output |-> r.output,
   error |-> IF r.errKeys = <<>> THEN <<>> ELSE <<Head(r.errKeys)>>,
   isError |-> r.errKeys /= <<>>]

convertToTablestoreAttributes(input) ==
  LET r == AttributesLoop(attributeKeys, input, <<>>, <<>>) IN
  [thrown |-> FALSE, output |-> r.output, error |-> r.errKeys, isError |-> r.errKeys /= <<>>]

\* an instruction of an update patch: { PUT: [{ name: value }] } or
\* { DELETE_ALL: [name] } (value is undefined then)
UpdateOp(type, name, value) == [type |-> type, name |-> name, value |-> value]

\* one round of the loop of convertToTablestoreUpdates, lines 263-292: the
\* instructions and the error keys it adds for key; now is Date.now()
UpdateOfKey_NoExistCheck(key, input, timestamps, now) ==
  LET value == Prop(input, key)
      schema == getFieldSchema(key)
  IN IF key = "updatedAt" /\ timestamps
       THEN [ops |-> <<UpdateOp("PUT", key,
                                jsToTablestore(Num(now), Decl(<<>>, "ZodNumber", TRUE)))>>,
             errKeys |-> <<>>]
     ELSE IF IsNullish(value)
       THEN [ops |-> <<UpdateOp("DELETE_ALL", key, Undef)>>, errKeys |-> <<>>]
     ELSE IF safeParse(schema, value).success
       THEN [ops |-> <<UpdateOp("PUT", key, jsToTablestore(value, schema))>>, errKeys |-> <<>>]
     ELSE [ops |-> <<>>, errKeys |-> <<key>>]

UpdateOfKey(key, input, timestamps, now) ==
  LET isExist == key \in DOMAIN input
      value == Prop(input, key)
      schema == getFieldSchema(key)
  IN IF key = "updatedAt" /\ timestamps
       THEN [ops |-> <<UpdateOp("PUT", key,
                                jsToTablestore(Num(now), Decl(<<>>, "ZodNumber", TRUE)))>>,
             errKeys |-> <<>>]
     ELSE IF ~isExist THEN [ops |-> <<>>, errKeys |-> <<>>]
     ELSE IF IsNullish(value)
       THEN [ops |-> <<UpdateOp("DELETE_ALL", key, Undef)>>, errKeys |-> <<>>]
     ELSE IF safeParse(schema, value).success
       THEN [ops |-> <<UpdateOp("PUT", key, jsToTablestore(value, schema))>>, errKeys |-> <<>>]
     ELSE [ops |-> <<>>, errKeys |-> <<key>>]

RECURSIVE UpdatesLoop(_, _, _, _, _, _)
UpdatesLoop(keys, input, timestamps, now, output, errKeys) ==
  IF keys = <<>> THEN [output |-> output, errKeys |-> errKeys]
  ELSE LET r == UpdateOfKey(Head(keys), input, timestamps, now) IN
       UpdatesLoop(Tail(keys), input, timestamps, now, output \o r.ops, errKeys \o r.errKeys)

\* convertToTablestoreUpdates(input) on a schema whose timestamps field is
\* timestamps, called when the clock reads now
convertToTablestoreUpdates(input, timestamps, now) ==
  LET r == UpdatesLoop(attributeKeys, input, timestamps, now, <<>>, <<>>) IN
  [output |-> r.output, error |-> r.errKeys, isError |-> r.errKeys /= <<>>]

\* ------------------------------------------------------------------------
\* schema.ts: the constructor.  options is
\*   [primaryKeys |-> optional list, GSIs |-> optional list of
\*    [indexName, primaryKeys], searchIndexes |-> optional list of
\*    [indexName, fieldSchemas]]
\* with fieldSchemas the fieldName of each entry of
\* indexSetting.schema.fieldSchemas.
\* ------------------------------------------------------------------------
\* a line of primaryErrMsg
ErrMsg(kind, name, keys) == [kind |-> kind, name |-> name, keys |-> keys]

RECURSIVE PkErrMsgs(_, _)
\* lines 143-147: one message per primary key that is not declared
PkErrMsgs(pks, definitionKeys) ==
  IF pks = <<>> THEN <<>>
  ELSE (IF Includes(definitionKeys, Head(pks)) THEN <<>>
        ELSE <<ErrMsg("primaryKey", Head(pks), <<Head(pks)>>)>>)
       \o PkErrMsgs(Tail(pks), definitionKeys)

RECURSIVE IndexErrMsgs(_, _, _)
\* lines 149-176: one message per index that lists undeclared fields
IndexErrMsgs(kind, indexes, definitionKeys) ==
  IF indexes = <<>> THEN <<>>
  ELSE LET ix == Head(indexes)
           listed == IF kind = "GSI" THEN ix.primaryKeys ELSE ix.fieldSchemas
           errPks == SeqFilterOut(listed, definitionKeys)
       IN (IF Len(errPks) > 0 THEN <<ErrMsg(kind, ix.indexName, errPks)>> ELSE <<>>)
          \o IndexErrMsgs(kind, Tail(indexes), definitionKeys)

\* _init: the messages it collects; it throws when there is one
DbSchema_init_NoSearchCheck(definitionKeys, options) ==
  LET pks == IF options.primaryKeys.def THEN options.primaryKeys.v ELSE <<>>
  IN (IF Len(pks) = 0 THEN <<ErrMsg("empty", "", <<>>)>> ELSE <<>>)
     \o PkErrMsgs(pks, definitionKeys)
     \o (IF options.GSIs.def THEN IndexErrMsgs("GSI", options.GSIs.v, definitionKeys)
         ELSE <<>>)

DbSchema_init(definitionKeys, options) ==
  LET pks == IF options.primaryKeys.def THEN options.primaryKeys.v ELSE <<>>
  IN (IF Len(pks) = 0 THEN <<ErrMsg("empty", "", <<>>)>> ELSE <<>>)
     \o PkErrMsgs(pks, definitionKeys)
     \o (IF options.GSIs.def THEN IndexErrMsgs("GSI", options.GSIs.v, definitionKeys)
         ELSE <<>>)
     \o (IF options.searchIndexes.def
           THEN IndexErrMsgs("SearchIndex", options.searchIndexes.v, definitionKeys)
           ELSE <<>>)

\* new DbSchema(schema, options): threw with the messages, or the fields of
\* the descriptor
DbSchema(definitionKeys, options) ==
  LET primaryErrMsg == DbSchema_init(definitionKeys, options) IN
  IF Len(primaryErrMsg) > 0
    THEN [threw |-> TRUE, message |-> primaryErrMsg, primaryKeys |-> <<>>,
          attributeKeys |-> <<>>, difinitionKeys |-> <<>>, GSIs |-> <<>>, searchIndexs |-> <<>>]
    ELSE [threw |-> FALSE, message |-> <<>>,
          primaryKeys |-> options.primaryKeys.v,
          attributeKeys |-> SeqFilterOut(definitionKeys, options.primaryKeys.v),
          difinitionKeys |-> definitionKeys,
          GSIs |-> IF options.GSIs.def THEN options.GSIs.v ELSE <<>>,
          searchIndexs |-> IF options.searchIndexes.def THEN options.searchIndexes.v ELSE <<>>]

\* ------------------------------------------------------------------------
\* utils.ts: executeSdkCall.  A store call settles as a response
\* [fail, isError, ...]; the result is the pair [err, res] (err = "null" for
\* null, res.def = FALSE for null) and thrown says whether the call threw
\* instead of returning the pair.
\* ------------------------------------------------------------------------
NullErr == "null"

executeSdkCall_Rethrow(resp, nullRes) ==
  IF resp.fail
    THEN [thrown |-> TRUE, err |-> "StoreError", res |-> nullRes]
    ELSE [thrown |-> FALSE, err |-> NullErr, res |-> resp]

executeSdkCall(resp, nullRes) ==
  IF resp.fail
    THEN [thrown |-> FALSE,
          err |-> IF resp.isError THEN "StoreError" ELSE "An unknown error occurred",
          res |-> nullRes]
    ELSE [thrown |-> FALSE, err |-> NullErr, res |-> resp]

\* ------------------------------------------------------------------------
\* connection.ts.  A Connection is its fields config and client (0 is null,
\* a positive number the identity of a Tablestore.Client instance) with the
\* history of its getClient calls: calls made, clients it constructed and
\* the instances the calls returned.
\* ------------------------------------------------------------------------
NoConfig == [endpoint |-> "", accessKeyId |-> "", secretAccessKey |-> "", instancename |-> ""]

\* state: "none" before new Connection(config), "threw" when the constructor
\* threw, "ok" for a constructed Connection
NoConnection ==
  [state |-> "none", config |-> NoConfig, client |-> 0, calls |-> 0, made |-> 0,
   returned |-> {}]

ConnIds == 1..MaxConns

\* config.x ?? process.env.X ?? "": "undefined" stands for an absent member
Coalesce(given, env) ==
  IF given /= "undefined" THEN given ELSE IF env /= "undefined" THEN env ELSE ""

\* new Connection(config) under the environment env, lines 36-58
Connection(config, env) ==
  LET endpoint == Coalesce(config.endpoint, env.endpoint)
      accessKeyId == Coalesce(config.accessKeyId, env.accessKeyId)
      secretAccessKey == Coalesce(config.secretAccessKey, env.secretAccessKey)
      instancename == Coalesce(config.instancename, env.instancename)
  IN IF endpoint = "" \/ accessKeyId = "" \/ secretAccessKey = "" \/ instancename = ""
       THEN [NoConnection EXCEPT !.state = "threw"]
       ELSE [NoConnection EXCEPT
               !.state = "ok",
               !.config = [endpoint |-> endpoint, accessKeyId |-> accessKeyId,
                           secretAccessKey |-> secretAccessKey,
                           instancename |-> instancename]]

\* getClient() when a new Tablestore.Client would get the identity fresh,
\* lines 64-71
Connection_getClient_NewEachCall(conn, fresh) ==
  [conn EXCEPT !.client = fresh, !.made = @ + 1, !.calls = @ + 1,
               !.returned = @ \cup {fresh}]

Connection_getClient(conn, fresh) ==
  IF conn.client = 0
    THEN [conn EXCEPT !.client = fresh, !.made = @ + 1, !.calls = @ + 1,
                      !.returned = @ \cup {fresh}]
    ELSE [conn EXCEPT !.calls = @ + 1, !.returned = @ \cup {conn.client}]

\* ------------------------------------------------------------------------
\* filter-factory.ts.  A callback is the expression it evaluates on the
\* factory: [op, field, value, pim, lvo, args]; pim / lvo are the options
\* passIfMissing / latestVersionOnly ("unset", "true", "false").
\* ------------------------------------------------------------------------
FExpr(op, field, value, pim, lvo, args) ==
  [op |-> op, field |-> field, value |-> value, pim |-> pim, lvo |-> lvo, args |-> args]

NoCond ==
  [kind |-> "none", columnName |-> "", columnValue |-> Undef, comparator |-> "",
   passIfMissing |-> FALSE, latestVersionOnly |-> FALSE, combinator |-> "",
   sub_conditions |-> <<>>]

SingleColumnCondition(columnName, columnValue, comparator, passIfMissing, latestVersionOnly) ==
  [NoCond EXCEPT !.kind = "single", !.columnName = columnName, !.columnValue = columnValue,
                 !.comparator = comparator, !.passIfMissing = passIfMissing,
                 !.latestVersionOnly = latestVersionOnly]

CompositeCondition(combinator, subs) ==
  [NoCond EXCEPT !.kind = "composite", !.combinator = combinator, !.sub_conditions = subs]

FOk(cond) == [ok |-> TRUE, cond |-> cond, msg |-> ""]
FThrow(msg) == [ok |-> FALSE, cond |-> NoCond, msg |-> msg]

OrTrue_Always(flag) == TRUE

\* options?.flag ?? true
OrTrue(flag) == flag /= "false"

createSingleCondition(field, value, comparator, pim, lvo) ==
  LET fieldSchema == getFieldSchema(field) IN
  IF fieldSchema = NoDecl THEN FThrow("field not in schema")
  ELSE LET columnValue == jsToTablestore(value, fieldSchema) IN
       IF IsNullish(columnValue) THEN FThrow("value is null or undefined")
       ELSE FOk(SingleColumnCondition(field, columnValue, comparator, OrTrue(pim), OrTrue(lvo)))

ComparatorOf ==
  [m \in {"equals", "notEqual", "greaterThan", "greaterThanOrEqual", "lessThan",
          "lessThanOrEqual"} |->
     CASE m = "equals" -> "EQUAL"
       [] m = "notEqual" -> "NOT_EQUAL"
       [] m = "greaterThan" -> "GREATER_THAN"
       [] m = "greaterThanOrEqual" -> "GREATER_EQUAL"
       [] m = "lessThan" -> "LESS_THAN"
       [] m = "lessThanOrEqual" -> "LESS_EQUAL"]

RECURSIVE EvalFilter(_)
RECURSIVE EvalFilterArgs(_, _)

\* the arguments of a combinator call, evaluated left to right; the first
\* one that throws ends the evaluation
EvalFilterArgs(args, acc) ==
  IF args = <<>> THEN [ok |-> TRUE, conds |-> acc, msg |-> ""]
  ELSE LET r == EvalFilter(Head(args)) IN
       IF ~r.ok THEN [ok |-> FALSE, conds |-> <<>>, msg |-> r.msg]
       ELSE EvalFilterArgs(Tail(args), Append(acc, r.cond))

EvalFilter(e) ==
  IF e.op \in DOMAIN ComparatorOf
    THEN createSingleCondition(e.field, e.value, ComparatorOf[e.op], e.pim, e.lvo)
  ELSE IF e.op = "throw" THEN FThrow("callback error")
  ELSE LET a == EvalFilterArgs(e.args, <<>>) IN
       IF ~a.ok THEN FThrow(a.msg)
       ELSE CASE e.op = "and" ->
                   IF Len(a.conds) = 0 THEN FThrow("AND needs a condition")
                   ELSE FOk(CompositeCondition("AND", a.conds))
              [] e.op = "or" ->
                   IF Len(a.conds) = 0 THEN FThrow("OR needs a condition")
                   ELSE FOk(CompositeCondition("OR", a.conds))
              [] e.op = "not" ->
                   FOk(CompositeCondition("NOT",
                         IF Len(a.conds) = 0 THEN <<NoCond>> ELSE <<a.conds[1]>>))

\* ------------------------------------------------------------------------
\* range-query-builder.ts
\* ------------------------------------------------------------------------
DEFAULT_LIMIT == 20

NoPk == [def |-> FALSE, v |-> <<>>]
NoCols == [def |-> FALSE, v |-> <<>>]

\* the builder after its constructor
RangeQueryBuilder(indexName) ==
  [indexName |-> indexName, _startPrimaryKey |-> NoPk, _endPrimaryKey |-> NoPk,
   _direction |-> "FORWARD", _limit |-> Num(DEFAULT_LIMIT), _columnsToGet |-> NoCols,
   _filter |-> NoCond]

\* the constructor: "ok", or the error it throws.  It looks the index up in
\* modelClass.schema.globalSecondaryIndexes.
RangeQueryBuilder_constructor(indexName) ==
  IF indexName.def /\ indexName.v /= ""
    THEN IF "globalSecondaryIndexes" \notin DbSchemaProps THEN "TypeError"
         ELSE IF \E i \in 1..Len(GSIs) : GSIs[i].indexName = indexName.v THEN "ok"
         ELSE "GSI not found"
    ELSE "ok"

RECURSIVE PushSentinels(_, _, _)
\* for (const key of missingKeys) output.push({ [key]: sentinel })
PushSentinels(output, missingKeys, sentinel) ==
  IF missingKeys = <<>> THEN output
  ELSE PushSentinels(Append(output, Cell(Head(missingKeys), sentinel)), Tail(missingKeys), sentinel)

RangeQueryBuilder_startWith_InfMax(b, pk) ==
  LET r == convertToTablestorePks(pk, b.indexName) IN
  [b EXCEPT !._startPrimaryKey =
              [def |-> TRUE, v |-> PushSentinels(r.output, r.missingKeys, INF_MAX)]]

RangeQueryBuilder_startWith(b, pk) ==
  LET r == convertToTablestorePks(pk, b.indexName) IN
  [b EXCEPT !._startPrimaryKey =
              [def |-> TRUE, v |-> PushSentinels(r.output, r.missingKeys, INF_MIN)]]

RangeQueryBuilder_endAt(b, pk) ==
  LET r == convertToTablestorePks(pk, b.indexName) IN
  [b EXCEPT !._endPrimaryKey =
              [def |-> TRUE, v |-> PushSentinels(r.output, r.missingKeys, INF_MAX)]]

RangeQueryBuilder_direction(b, dir) == [b EXCEPT !._direction = dir]

\* count > 0 for a number count; NaN > 0 is false
GreaterThanZero(count) ==
  CASE count.t = "num" -> count.n > 0
    [] count.t = "half" -> count.n >= 0
    [] OTHER -> FALSE

RangeQueryBuilder_limit(b, count) ==
  [b EXCEPT !._limit = IF GreaterThanZero(count) THEN count ELSE Num(DEFAULT_LIMIT)]

RangeQueryBuilder_select_KeepAll(b, fields) ==
  [b EXCEPT !._columnsToGet =
              [def |-> TRUE, v |-> IF Len(fields) = 0 THEN difinitionKeys ELSE fields]]

RangeQueryBuilder_select(b, fields) ==
  [b EXCEPT !._columnsToGet =
              [def |-> TRUE,
               v |-> IF Len(fields) = 0 THEN difinitionKeys
                     ELSE SeqFilterIn(difinitionKeys, fields)]]

\* the catch block of filter, lines 134-137: it throws the wrapped error
\* and assigns no field of the builder
FilterCatch_Clear(b) == [b EXCEPT !._filter = NoCond]

FilterCatch(b) == b

\* filter(callback): [threw, b]; the assignment to _filter happens only
\* when the callback returns
RangeQueryBuilder_filter_Merge(b, callback) ==
  LET r == EvalFilter(callback) IN
  IF r.ok
    THEN [threw |-> FALSE, invoked |-> 1,
          b |-> [b EXCEPT !._filter = IF b._filter = NoCond THEN r.cond
                                       ELSE CompositeCondition("AND", <<b._filter, r.cond>>)]]
    ELSE [threw |-> TRUE, invoked |-> 1, b |-> b]

RangeQueryBuilder_filter(b, callback) ==
  LET r == EvalFilter(callback) IN
  IF r.ok THEN [threw |-> FALSE, invoked |-> 1, b |-> [b EXCEPT !._filter = r.cond]]
  ELSE [threw |-> TRUE, invoked |-> 1, b |-> FilterCatch(b)]

\* exec, lines 167-175: the defaults it fills in before the request
RangeQueryBuilder_execDefaults_NoEnd(b) ==
  LET b1 == IF ~b._startPrimaryKey.def THEN RangeQueryBuilder_startWith(b, <<>>) ELSE b
  IN IF ~b1._columnsToGet.def
       THEN [b1 EXCEPT !._columnsToGet = [def |-> TRUE, v |-> difinitionKeys]]
       ELSE b1

RangeQueryBuilder_execDefaults(b) ==
  LET b1 == IF ~b._startPrimaryKey.def THEN RangeQueryBuilder_startWith(b, <<>>) ELSE b
      b2 == IF ~b1._endPrimaryKey.def THEN RangeQueryBuilder_endAt(b1, <<>>) ELSE b1
  IN IF ~b2._columnsToGet.def
       THEN [b2 EXCEPT !._columnsToGet = [def |-> TRUE, v |-> difinitionKeys]]
       ELSE b2

\* the getRange parameters, lines 178-186
getRangeParams(b) ==
  [def |-> TRUE,
   tableName |-> IF b.indexName.def THEN b.indexName.v ELSE tableName,
   inclusiveStartPrimaryKey |-> b._startPrimaryKey.v,
   exclusiveEndPrimaryKey |-> b._endPrimaryKey.v,
   limit |-> b._limit,
   direction |-> b._direction,
   columnFilter |-> b._filter,
   columnsToGet |-> b._columnsToGet.v]

\* the builder as exec leaves it: exec assigns no field after the defaults
RangeQueryBuilder_afterExec_Reset(b) ==
  [b EXCEPT !._limit = Num(DEFAULT_LIMIT), !._filter = NoCond, !._direction = "FORWARD"]

RangeQueryBuilder_afterExec(b) == b

RECURSIVE MapRows(_)
\* rows.map((r) => convertToJs(r))
MapRows(rows) ==
  IF rows = <<>> THEN <<>> ELSE <<convertToJs(Head(rows))>> \o MapRows(Tail(rows))

RECURSIVE DropUndefined(_)
\* jsData.filter((j) => !!j)
DropUndefined(js) ==
  IF js = <<>> THEN <<>>
  ELSE (IF Head(js).def THEN <<Head(js)>> ELSE <<>>) \o DropUndefined(Tail(js))

\* what an execution settles with: how = "resolved" with the pair
\* [err, data] or "rejected"; data.kind = "null" is a null second element
NoData == [kind |-> "null", rows |-> <<>>, next |-> NoPk, totalCount |-> 0, nextToken |-> NoName]
NoOutcome == [how |-> "none", err |-> NullErr, data |-> NoData]
Resolved(err, data) == [how |-> "resolved", err |-> err, data |-> data]
Rejected_AsPair(err) == [how |-> "resolved", err |-> err, data |-> NoData]
Rejected(err) == [how |-> "rejected", err |-> err, data |-> NoData]

\* a getRange response
RangeResp(rows, next) == [fail |-> FALSE, isError |-> FALSE, def |-> TRUE, rows |-> rows, next |-> next]
RangeFail(isError) == [fail |-> TRUE, isError |-> isError, def |-> TRUE, rows |-> <<>>, next |-> NoPk]
NullRangeRes == [fail |-> FALSE, isError |-> FALSE, def |-> FALSE, rows |-> <<>>, next |-> NoPk]

\* exec after the await, lines 188-195
RangeQueryBuilder_execResult(resp) ==
  LET r == executeSdkCall(resp, NullRangeRes) IN
  IF r.thrown THEN Rejected(r.err)
  ELSE IF r.err /= NullErr THEN Resolved(r.err, NoData)
  ELSE Resolved(NullErr,
                [NoData EXCEPT !.kind = "page",
                               !.rows = DropUndefined(MapRows(r.res.rows)),
                               !.next = r.res.next])

\* findOne after its await of exec, lines 205-209
RangeQueryBuilder_findOneResult_Last(o) ==
  IF o.how /= "resolved" THEN o
  ELSE IF o.err /= NullErr THEN Resolved(o.err, NoData)
  ELSE IF Len(o.data.rows) > 0
    THEN Resolved(NullErr, [NoData EXCEPT !.kind = "row",
                                          !.rows = <<o.data.rows[Len(o.data.rows)]>>])
    ELSE Resolved(NullErr, NoData)

RangeQueryBuilder_findOneResult(o) ==
  IF o.how /= "resolved" THEN o
  ELSE IF o.err /= NullErr THEN Resolved(o.err, NoData)
  ELSE IF Len(o.data.rows) > 0
    THEN Resolved(NullErr, [NoData EXCEPT !.kind = "row", !.rows = <<o.data.rows[1]>>])
    ELSE Resolved(NullErr, NoData)

\* ------------------------------------------------------------------------
\* query-factory.ts.  A callback of SearchQueryBuilder.filter is the factory
\* call it makes: [fn, field, value].
\* ------------------------------------------------------------------------
NoQuery == [def |-> FALSE, queryType |-> "", fieldName |-> "", term |-> Undef]
Query(queryType, fieldName, term) ==
  [def |-> TRUE, queryType |-> queryType, fieldName |-> fieldName, term |-> term]

SCall(fn, field, value) == [fn |-> fn, field |-> field, value |-> value]

\* the SearchQuery a factory call returns, or threw = TRUE
QueryFactory(c) ==
  CASE c.fn = "matchAll" ->
         [threw |-> FALSE, query |-> Query("MATCH_ALL_QUERY", "", Undef), collapse |-> NoName]
    [] c.fn = "term" ->
         [threw |-> FALSE, query |-> Query("TERM_QUERY", c.field, c.value), collapse |-> NoName]
    [] c.fn = "collapse" ->
         [threw |-> FALSE, query |-> Query("MATCH_ALL_QUERY", "", Undef),
          collapse |-> SomeName(c.field)]
    [] c.fn = "bool" -> [threw |-> FALSE, query |-> NoQuery, collapse |-> NoName]
    [] OTHER -> [threw |-> TRUE, query |-> NoQuery, collapse |-> NoName]

\* options.flag ?? true of QueryFactory.range: "unset" is an absent flag
RangeFlag(flag) == flag /= "false"

\* QueryFactory.range(field, from, to, options): the query it returns
QueryFactory_range(field, from, to, options) ==
  [queryType |-> "RANGE_QUERY", fieldName |-> field, rangeFrom |-> from, rangeTo |-> to,
   includeLower |-> RangeFlag(options.includeUpper),
   includeUpper |-> RangeFlag(options.includeUpper)]

\* ------------------------------------------------------------------------
\* search-query-builder.ts
\* ------------------------------------------------------------------------
DEFAULT_SEARCH_LIMIT == 10

NoNum == [def |-> FALSE, v |-> 0]
SomeNum(n) == [def |-> TRUE, v |-> n]

SearchQueryBuilder(indexName) ==
  [indexName |-> indexName, _query |-> NoQuery, _limit |-> NoNum, _offset |-> NoNum,
   _token |-> NoName, _getTotalCount |-> TRUE, _select |-> NoCols]

SearchQueryBuilder_constructor(indexName) ==
  IF \E i \in 1..Len(searchIndexs) : searchIndexs[i].indexName = indexName
    THEN "ok" ELSE "index not found"

SearchQueryBuilder_filter(b, callback) ==
  LET r == QueryFactory(callback) IN
  IF r.threw THEN [threw |-> TRUE, b |-> b]
  ELSE [threw |-> FALSE, b |-> [b EXCEPT !._query = r.query]]

SearchQueryBuilder_limit(b, count) == [b EXCEPT !._limit = SomeNum(count)]
SearchQueryBuilder_offset(b, value) == [b EXCEPT !._offset = SomeNum(value)]
SearchQueryBuilder_token(b, token) == [b EXCEPT !._token = SomeName(token)]
SearchQueryBuilder_select(b, fields) == [b EXCEPT !._select = [def |-> TRUE, v |-> fields]]
SearchQueryBuilder_getTotalCount(b, getTotal) == [b EXCEPT !._getTotalCount = getTotal]

\* if (!this._query) throw
HasQuery_Always(b) == TRUE

HasQuery(b) == b._query.def

\* x || fallback for an optional number: undefined and 0 are falsy
OrNum(x, fallback) == IF x.def /\ x.v /= 0 THEN x.v ELSE fallback

\* the search request, lines 117-134; no member of searchQuery is a
\* collapse (collapse.def = FALSE is a request with no collapse member)
getSearchParams(b) ==
  [def |-> TRUE,
   tableName |-> tableName,
   indexName |-> b.indexName,
   query |-> b._query,
   token |-> b._token,
   limit |-> OrNum(b._limit, DEFAULT_SEARCH_LIMIT),
   offset |-> OrNum(b._offset, 0),
   getTotalCount |-> b._getTotalCount,
   collapse |-> NoName,
   returnNames |-> b._select,
   returnType |-> IF b._select.def /\ Len(b._select.v) > 0
                    THEN "RETURN_SPECIFIED" ELSE "RETURN_ALL"]

\* a search response
SearchResp(rows, totalCounts, nextToken, isAllSucceeded) ==
  [fail |-> FALSE, isError |-> FALSE, def |-> TRUE, rows |-> rows, totalCounts |-> totalCounts,
   nextToken |-> nextToken, isAllSucceeded |-> isAllSucceeded]
SearchFail(isError) ==
  [fail |-> TRUE, isError |-> isError, def |-> TRUE, rows |-> <<>>, totalCounts |-> Undef,
   nextToken |-> NoName, isAllSucceeded |-> FALSE]
NullSearchRes ==
  [fail |-> FALSE, isError |-> FALSE, def |-> FALSE, rows |-> <<>>, totalCounts |-> Undef,
   nextToken |-> NoName, isAllSucceeded |-> FALSE]

\* Number(totalCounts) || 0
CountOf(totalCounts) ==
  LET m == CASE totalCounts.t \in {"num", "Long"} -> Num(totalCounts.n)
             [] totalCounts.t = "str" -> StringToNumber(totalCounts.s)
             [] OTHER -> NaN
  IN IF m.t = "num" THEN m.n ELSE 0

\* the result for a response, lines 141-152
SearchQueryBuilder_mapResponse_Partial(res) ==
  [NoData EXCEPT !.kind = "page", !.rows = MapRows(res.rows),
                 !.totalCount = CountOf(res.totalCounts)]

SearchQueryBuilder_mapResponse(res) ==
  IF ~res.isAllSucceeded
    THEN [NoData EXCEPT !.kind = "page", !.rows = <<>>, !.totalCount = 0]
    ELSE [NoData EXCEPT !.kind = "page", !.rows = MapRows(res.rows),
                        !.totalCount = CountOf(res.totalCounts)]

\* exec after the await, lines 138-152
SearchQueryBuilder_execResult(resp) ==
  LET r == executeSdkCall(resp, NullSearchRes) IN
  IF r.thrown THEN Rejected(r.err)
  ELSE IF r.err /= NullErr THEN Resolved(r.err, NoData)
  ELSE Resolved(NullErr, SearchQueryBuilder_mapResponse(r.res))

\* findOne after its await of exec, lines 163-170
SearchQueryBuilder_findOneResult_NoMatchIsError(o) ==
  IF o.how /= "resolved" THEN o
  ELSE IF o.err /= NullErr THEN Resolved(o.err, NoData)
  ELSE IF Len(o.data.rows) = 0 THEN Resolved("not found", NoData)
  ELSE IF ~o.data.rows[1].def THEN Resolved(NullErr, [NoData EXCEPT !.kind = "undefined"])
  ELSE Resolved(NullErr, [NoData EXCEPT !.kind = "row", !.rows = <<o.data.rows[1]>>])

SearchQueryBuilder_findOneResult(o) ==
  IF o.how /= "resolved" THEN o
  ELSE IF o.err /= NullErr THEN Resolved(o.err, NoData)
  ELSE IF Len(o.data.rows) = 0 THEN Resolved(NullErr, NoData)
  ELSE IF ~o.data.rows[1].def THEN Resolved(NullErr, [NoData EXCEPT !.kind = "undefined"])
  ELSE Resolved(NullErr, [NoData EXCEPT !.kind = "row", !.rows = <<o.data.rows[1]>>])

\* ------------------------------------------------------------------------
\* Inputs of the converter
\* ------------------------------------------------------------------------
StringSamples ==
  { <<>>, <<"a">>, <<"a", "b">>, <<"0">>, <<"1", ",", "0">>,
    <<"f", "a", "l", "s", "e">>, <<Quote>>, <<"[">> }
DateSamples == {0, 7, 1970, 86400000, 1000000000}
IntSamples == ((0 - MaxInt)..MaxInt) \cup {999, 1000, 0 - 1000, 1234567, 2147483647}

JsonAtoms == {Null, Bool(TRUE), Bool(FALSE), Num(0 - MaxInt), Str(<<"a", Quote, Backslash>>)}
FillAtoms == {Num(MaxInt), Bool(FALSE)}
FillSeqs(k) == UNION {[1..m -> FillAtoms] : m \in 0..k}

Arrays(L) == {Arr(<<>>)} \cup {Arr(<<x>> \o f) : x \in L, f \in FillSeqs(MaxArrLen - 1)}
Objects(L) ==
  {Obj(<<>>, <<>>)}
    \cup {Obj(<< <<"k">> >>, <<x>>) : x \in L}
    \cup {Obj(<< <<"k">>, <<"m", Quote>> >>, <<x, a>>) : x \in L, a \in FillAtoms}

\* the JSON values of nesting depth at most d
RECURSIVE JsonLevel(_)
JsonLevel(d) ==
  IF d = 0 THEN JsonAtoms
  ELSE LET L == JsonLevel(d - 1) IN JsonAtoms \cup Arrays(L) \cup Objects(L)

JsonValues == JsonLevel(MaxDepth)

WrapSamples == {<<>>, <<"ZodOptional">>, <<"ZodDefault", "ZodNullable">>}

\* a declaration together with a valid value of its type
ConvInputs ==
  UNION { {<<Decl(w, "ZodString", FALSE), Str(x)>> : x \in StringSamples}
          \cup {<<Decl(w, "ZodBoolean", FALSE), Bool(b)>> : b \in BOOLEAN}
          \cup {<<Decl(w, "ZodDate", FALSE), DateV(ms)>> : ms \in DateSamples}
          \cup {<<Decl(w, "ZodNumber", TRUE), Num(n)>> : n \in IntSamples}
          \cup {<<Decl(w, "ZodNumber", FALSE), Num(n)>> : n \in {0, 999, 1000}}
          \cup {<<Decl(w, tn, FALSE), v>> : tn \in {"ZodArray", "ZodTuple"},
                                           v \in {x \in JsonValues : x.t = "arr"}}
          \cup {<<Decl(w, tn, FALSE), v>> : tn \in {"ZodObject", "ZodRecord"},
                                           v \in {x \in JsonValues : x.t = "obj"}}
          \cup {<<Decl(w, tn, FALSE), v>> :
                   tn \in {"ZodString", "ZodNumber", "ZodArray"}, v \in {Undef, Null}}
        : w \in WrapSamples }

\* texts a structured column may hold that were not written by jsToTablestore
RawTexts ==
  { <<"{">>, <<"[", "1", ",", " ", "2">>, <<>>, <<"[", "1", ",", " ", "2", "]">>,
    <<"{", Quote, "k", Quote, ":", "0", "1", "}">>, <<"n", "u", "l">>,
    <<"[", "1", ",", "]">>, <<Quote, "a", Backslash, Quote>>, <<" ", "7", " ">>,
    <<"{", Quote, "k", Quote, " ", ":", " ", "[", " ", "]", " ", "}">>, <<"-">> }

\* ------------------------------------------------------------------------
\* State
\* ------------------------------------------------------------------------
VARIABLES
  cv_pc,      \* converter run: "start", "wired" (after toWire), "done", "idle"
  cv_decl,    \* the field declaration
  cv_in,      \* the application value given to jsToTablestore
  cv_raw,     \* TRUE when cv_wire is a raw stored text, not a converted value
  cv_wire,    \* the cell value
  cv_out,     \* the value tablestoreToJs returned
  bk,         \* the builder in use: "none", "range", "search", "ctorThrew"
  rb,         \* the RangeQueryBuilder's fields
  sb,         \* the SearchQueryBuilder's fields
  pc,         \* "idle", or "awaiting" while an execution awaits the store
  curOp,      \* the execution in progress or last finished: "exec", "findOne"
  req,        \* the last getRange request the store client received
  sreq,       \* the last search request the store client received
  calls,      \* store requests issued by the current / last execution
  outcome,    \* what the last call settled with, when it was an execution
  threw,      \* the call that last threw synchronously, "" when the last call returned
  chainSince, \* a chain call was made since the last execution started
  repeated,   \* the last execution started with no chain call since the one before
  limitArg,   \* the argument of the last limit(count) call
  startArg,   \* the partial key of the caller's last startWith call
  endArg,     \* the partial key of the caller's last endAt call
  chainArg,   \* the index name, the last select list and the filter callbacks given
  rresp,      \* the getRange response the last call's execution received
  sresp,      \* the search response the last call's execution received
  nChain,     \* chain calls made on the builder
  nExec,      \* executions started on the builder
  fn_pc,      \* function call: "start", "done", "idle"
  fn_op,      \* the function called
  fn_in,      \* its arguments
  fn_out,     \* what it returned or threw
  conns,      \* the Connection objects: their fields and what their calls did
  clients     \* Tablestore.Client instances constructed so far

cvVars == <<cv_pc, cv_decl, cv_in, cv_raw, cv_wire, cv_out>>
qbVars ==
  <<bk, rb, sb, pc, curOp, req, sreq, calls, outcome, threw, chainSince, repeated, limitArg,
    startArg, endArg, chainArg, rresp, sresp, nChain, nExec>>
fnVars == <<fn_pc, fn_op, fn_in, fn_out>>
cnVars == <<conns, clients>>
vars == <<cvVars, qbVars, fnVars, cnVars>>

NoRangeReq ==
  [def |-> FALSE, tableName |-> "", inclusiveStartPrimaryKey |-> <<>>,
   exclusiveEndPrimaryKey |-> <<>>, limit |-> Undef, direction |-> "", columnFilter |-> NoCond,
   columnsToGet |-> <<>>]
NoSearchReq ==
  [def |-> FALSE, tableName |-> "", indexName |-> "", query |-> NoQuery, token |-> NoName,
   limit |-> 0, offset |-> 0, getTotalCount |-> FALSE, collapse |-> NoName,
   returnNames |-> NoCols,
   returnType |-> ""]

NoArg == [def |-> FALSE, v |-> [category |-> Undef, productId |-> Undef]]

NoCount == [def |-> FALSE, v |-> Undef]
SomeCount(count) == [def |-> TRUE, v |-> count]

\* index: the index name given to Model.findByIndex; select: the fields of
\* the last select call; filter: the callback of the
\* last range filter call that returned, the filter calls made, the
\* callback invocations they made and how many of them returned; sfilter: the callback of the last search
\* filter call that returned
NoChainArg ==
  [index |-> NoName,
   select |-> NoCols,
   filter |-> [def |-> FALSE, v |-> FExpr("", "", Undef, "unset", "unset", <<>>),
               calls |-> 0, invoked |-> 0, returned |-> 0],
   sfilter |-> [def |-> FALSE, v |-> SCall("", "", Undef)]]

\* no builder constructed yet
QbInit ==
  /\ bk = "none"
  /\ rb = RangeQueryBuilder(NoName)
  /\ sb = SearchQueryBuilder("")
  /\ pc = "idle"
  /\ curOp = "none"
  /\ req = NoRangeReq
  /\ sreq = NoSearchReq
  /\ calls = 0
  /\ outcome = NoOutcome
  /\ threw = ""
  /\ chainSince = FALSE
  /\ repeated = FALSE
  /\ limitArg = NoCount
  /\ startArg = NoArg
  /\ endArg = NoArg
  /\ chainArg = NoChainArg
  /\ rresp = NullRangeRes
  /\ sresp = NullSearchRes
  /\ nChain = 0
  /\ nExec = 0

\* no conversion in progress
CvIdle ==
  /\ cv_pc = "idle"
  /\ cv_decl = NoDecl
  /\ cv_in = Undef
  /\ cv_raw = FALSE
  /\ cv_wire = Undef
  /\ cv_out = Undef

\* no function call in progress
FnIdle ==
  /\ fn_pc = "idle"
  /\ fn_op = ""
  /\ fn_in = Undef
  /\ fn_out = Undef

\* no Connection constructed yet
CnIdle ==
  /\ conns = [c \in ConnIds |-> NoConnection]
  /\ clients = 0

\* ------------------------------------------------------------------------
\* The converter as a state machine: one conversion to the wire and back
\* ------------------------------------------------------------------------
ConvInit ==
  /\ QbInit
  /\ FnIdle
  /\ CnIdle
  /\ cv_out = Undef
  /\ \/ /\ cv_pc = "start"
        /\ cv_raw = FALSE
        /\ cv_wire = Undef
        /\ \E p \in ConvInputs : cv_decl = p[1] /\ cv_in = p[2]
     \/ /\ cv_pc = "wired"
        /\ cv_raw = TRUE
        /\ cv_in = Undef
        /\ cv_decl \in {Decl(<<>>, tn, FALSE) : tn \in StructuredTypes}
        /\ cv_wire \in {Str(x) : x \in RawTexts}

ToWire ==
  /\ cv_pc = "start"
  /\ cv_wire' = jsToTablestore(cv_in, cv_decl)
  /\ cv_pc' = "wired"
  /\ UNCHANGED <<cv_decl, cv_in, cv_raw, cv_out>>
  /\ UNCHANGED <<qbVars, fnVars, cnVars>>

FromWire ==
  /\ cv_pc = "wired"
  /\ cv_out' = tablestoreToJs(cv_wire, cv_decl)
  /\ cv_pc' = "done"
  /\ UNCHANGED <<cv_decl, cv_in, cv_raw, cv_wire>>
  /\ UNCHANGED <<qbVars, fnVars, cnVars>>

ConvNext == ToWire \/ FromWire

SpecConv == ConvInit /\ [][ConvNext]_vars

\* ------------------------------------------------------------------------
\* Inputs of the builders
\* ------------------------------------------------------------------------
EmptyObject == <<>>

\* partial primary keys: any subset of the key fields, a null counted as absent
PartialKeys ==
  { [category |-> c, productId |-> i] :
      c \in {Undef, Str(<<"a">>)}, i \in {Undef, Null, Num(0)} }

LimitCounts == {Num(0 - 5), Num(0), Num(1), Num(3), Half(2), NaN}
Directions == {"FORWARD", "BACKWARD"}
SelectLists == { <<>>, <<"age">>, <<"x">>, <<"name", "category">> }

Leaf(op, field, value) == FExpr(op, field, value, "unset", "unset", <<>>)
FilterCallbacks ==
  { Leaf("equals", "age", Num(5)),
    FExpr("and", "", Undef, "unset", "unset",
          << Leaf("notEqual", "name", Str(<<"n">>)),
             FExpr("not", "", Undef, "unset", "unset",
                   << FExpr("greaterThan", "age", Num(3), "false", "unset", <<>>) >>) >>),
    FExpr("or", "", Undef, "unset", "unset", <<>>),
    Leaf("equals", "nope", Num(1)),
    Leaf("lessThan", "age", Null) }

RowA ==
  Row(<<Cell("category", Str(<<"a">>)), Cell("productId", Long(1))>>,
      <<Cell("age", Long(30)), Cell("name", Str(<<"n">>))>>)
RowB ==
  Row(<<Cell("category", Str(<<"b">>)), Cell("productId", Long(2))>>,
      <<Cell("zzz", Long(7)), Cell("age", Undef)>>)
NextKey == [def |-> TRUE, v |-> <<Cell("category", Str(<<"b">>)), Cell("productId", Long(3))>>]

RangeResponses ==
  { RangeResp(<<>>, NoPk), RangeResp(<<RowA>>, NoPk), RangeResp(<<RowA, NoRow, RowB>>, NextKey),
    RangeFail(TRUE), RangeFail(FALSE) }

SearchCallbacks ==
  { SCall("matchAll", "", Undef), SCall("term", "name", Str(<<"n">>)),
    SCall("collapse", "category", Undef), SCall("bool", "", Undef), SCall("throw", "", Undef) }
SearchLimits == {0, 5}
SearchOffsets == {0, 2}
Tokens == {"tok1"}
SearchSelects == { <<>>, <<"name">>, <<"x", "name">> }

SearchResponses ==
  { SearchResp(<<RowA, RowB>>, Long(2), SomeName("tok2"), TRUE),
    SearchResp(<<>>, Undef, NoName, TRUE),
    SearchResp(<<RowA>>, Long(9), SomeName("tok2"), FALSE),
    SearchResp(<<>>, Num(0), NoName, FALSE),
    SearchFail(TRUE), SearchFail(FALSE) }

\* ------------------------------------------------------------------------
\* The builders as a state machine
\* ------------------------------------------------------------------------
Init == CvIdle /\ QbInit /\ FnIdle /\ CnIdle

\* Model.range() / Model.findByIndex(indexName)
NewRange ==
  /\ bk = "none"
  /\ \E ix \in {NoName, SomeName("byAge"), SomeName("nope")} :
       LET c == RangeQueryBuilder_constructor(ix) IN
       /\ bk' = IF c = "ok" THEN "range" ELSE "ctorThrew"
       /\ rb' = IF c = "ok" THEN RangeQueryBuilder(ix) ELSE rb
       /\ threw' = IF c = "ok" THEN "" ELSE c
       /\ chainArg' = [chainArg EXCEPT !.index = ix]
  /\ UNCHANGED <<sb, pc, curOp, req, sreq, calls, outcome, chainSince, repeated, limitArg,
                 startArg, endArg, rresp, sresp, nChain, nExec>>
  /\ UNCHANGED <<cvVars, fnVars, cnVars>>

\* Model.search(indexName)
NewSearch ==
  /\ bk = "none"
  /\ \E ix \in {"idx", "nope"} :
       LET c == SearchQueryBuilder_constructor(ix) IN
       /\ bk' = IF c = "ok" THEN "search" ELSE "ctorThrew"
       /\ sb' = IF c = "ok" THEN SearchQueryBuilder(ix) ELSE sb
       /\ threw' = IF c = "ok" THEN "" ELSE c
  /\ UNCHANGED <<rb, pc, curOp, req, sreq, calls, outcome, chainSince, repeated, limitArg,
                 startArg, endArg, chainArg, rresp, sresp, nChain, nExec>>
  /\ UNCHANGED <<cvVars, fnVars, cnVars>>

\* what every chain call on the range builder shares
RangeChain_LiveRequest(b, t, la, sa, ea, ca) ==
  /\ rb' = b
  /\ req' = IF pc = "awaiting" THEN getRangeParams(b) ELSE req
  /\ threw' = t
  /\ limitArg' = la
  /\ startArg' = sa
  /\ endArg' = ea
  /\ chainArg' = ca
  /\ chainSince' = TRUE
  /\ outcome' = NoOutcome
  /\ rresp' = NullRangeRes
  /\ nChain' = nChain + 1
  /\ UNCHANGED <<bk, sb, pc, curOp, sreq, calls, repeated, sresp, nExec>>
  /\ UNCHANGED <<cvVars, fnVars, cnVars>>

RangeChain(b, t, la, sa, ea, ca) ==
  /\ rb' = b
  /\ threw' = t
  /\ limitArg' = la
  /\ startArg' = sa
  /\ endArg' = ea
  /\ chainArg' = ca
  /\ chainSince' = TRUE
  /\ outcome' = NoOutcome
  /\ rresp' = NullRangeRes
  /\ nChain' = nChain + 1
  /\ UNCHANGED <<bk, sb, pc, curOp, req, sreq, calls, repeated, sresp, nExec>>
  /\ UNCHANGED <<cvVars, fnVars, cnVars>>

RangeChainEnabled == bk = "range" /\ nChain < MaxChain

startWith ==
  /\ RangeChainEnabled
  /\ \E pk \in PartialKeys : RangeChain(RangeQueryBuilder_startWith(rb, pk), "", limitArg, [def |-> TRUE, v |-> pk], endArg, chainArg)

endAt ==
  /\ RangeChainEnabled
  /\ \E pk \in PartialKeys : RangeChain(RangeQueryBuilder_endAt(rb, pk), "", limitArg, startArg, [def |-> TRUE, v |-> pk], chainArg)

direction ==
  /\ RangeChainEnabled
  /\ \E dir \in Directions : RangeChain(RangeQueryBuilder_direction(rb, dir), "", limitArg, startArg, endArg, chainArg)

limit ==
  /\ RangeChainEnabled
  /\ \E count \in LimitCounts :
       RangeChain(RangeQueryBuilder_limit(rb, count), "", SomeCount(count), startArg, endArg, chainArg)

select ==
  /\ RangeChainEnabled
  /\ \E fields \in SelectLists :
       RangeChain(RangeQueryBuilder_select(rb, fields), "", limitArg, startArg, endArg,
                  [chainArg EXCEPT !.select = [def |-> TRUE, v |-> fields]])

filter ==
  /\ RangeChainEnabled
  /\ \E callback \in FilterCallbacks :
       \E r \in {RangeQueryBuilder_filter(rb, callback)} :
         RangeChain(r.b, IF r.threw THEN "filter" ELSE "", limitArg, startArg, endArg,
                    [chainArg EXCEPT
                       !.filter = [def |-> IF r.threw THEN @.def ELSE TRUE,
                                   v |-> IF r.threw THEN @.v ELSE callback,
                                   calls |-> @.calls + 1,
                                   invoked |-> @.invoked + r.invoked,
                                   returned |-> @.returned + (IF r.threw THEN 0 ELSE 1)]])

\* exec() / findOne() up to the await: findOne calls limit(1) first; the
\* defaults are filled in and getRange is called once
RangeExecStart(op) ==
  /\ bk = "range" /\ pc = "idle" /\ nExec < MaxExecs
  /\ \E b0 \in {IF op = "findOne" THEN RangeQueryBuilder_limit(rb, Num(1)) ELSE rb} :
       \E b1 \in {RangeQueryBuilder_execDefaults(b0)} :
         /\ req' = getRangeParams(b1)
         /\ rb' = RangeQueryBuilder_afterExec(b1)
  /\ limitArg' = IF op = "findOne" THEN SomeCount(Num(1)) ELSE limitArg
  /\ repeated' = (op = "exec" /\ ~chainSince /\ nExec > 0)
  /\ chainSince' = FALSE
  /\ pc' = "awaiting"
  /\ curOp' = op
  /\ calls' = 1
  /\ outcome' = NoOutcome
  /\ threw' = ""
  /\ rresp' = NullRangeRes
  /\ nExec' = nExec + 1
  /\ UNCHANGED <<bk, sb, sreq, startArg, endArg, chainArg, sresp, nChain>>
  /\ UNCHANGED <<cvVars, fnVars, cnVars>>

exec == RangeExecStart("exec")
findOne == RangeExecStart("findOne")

\* the store settles the getRange call and the execution finishes
RangeSettle ==
  /\ bk = "range" /\ pc = "awaiting"
  /\ \E resp \in RangeResponses :
       \E o \in {RangeQueryBuilder_execResult(resp)} :
         /\ outcome' = IF curOp = "findOne" THEN RangeQueryBuilder_findOneResult(o) ELSE o
         /\ rresp' = resp
  /\ pc' = "idle"
  /\ UNCHANGED <<bk, rb, sb, curOp, req, sreq, calls, threw, chainSince, repeated, limitArg,
                 startArg, endArg, chainArg, sresp, nChain, nExec>>
  /\ UNCHANGED <<cvVars, fnVars, cnVars>>

\* what every chain call on the search builder shares
SearchChain(b, t, ca) ==
  /\ sb' = b
  /\ threw' = t
  /\ chainArg' = ca
  /\ chainSince' = TRUE
  /\ outcome' = NoOutcome
  /\ sresp' = NullSearchRes
  /\ nChain' = nChain + 1
  /\ UNCHANGED <<bk, rb, pc, curOp, req, sreq, calls, repeated, limitArg, startArg, endArg,
                 rresp, nExec>>
  /\ UNCHANGED <<cvVars, fnVars, cnVars>>

SearchChainEnabled == bk = "search" /\ nChain < MaxChain

searchFilter ==
  /\ SearchChainEnabled
  /\ \E callback \in SearchCallbacks :
       \E r \in {SearchQueryBuilder_filter(sb, callback)} :
         SearchChain(r.b, IF r.threw THEN "filter" ELSE "",
                     IF r.threw THEN chainArg
                     ELSE [chainArg EXCEPT !.sfilter = [def |-> TRUE, v |-> callback]])

searchLimit ==
  /\ SearchChainEnabled
  /\ \E count \in SearchLimits : SearchChain(SearchQueryBuilder_limit(sb, count), "", chainArg)

searchOffset ==
  /\ SearchChainEnabled
  /\ \E value \in SearchOffsets : SearchChain(SearchQueryBuilder_offset(sb, value), "", chainArg)

searchToken ==
  /\ SearchChainEnabled
  /\ \E token \in Tokens : SearchChain(SearchQueryBuilder_token(sb, token), "", chainArg)

searchSelect ==
  /\ SearchChainEnabled
  /\ \E fields \in SearchSelects :
       SearchChain(SearchQueryBuilder_select(sb, fields), "",
                   [chainArg EXCEPT !.select = [def |-> TRUE, v |-> fields]])

searchGetTotalCount ==
  /\ SearchChainEnabled
  /\ \E getTotal \in BOOLEAN : SearchChain(SearchQueryBuilder_getTotalCount(sb, getTotal), "", chainArg)

\* exec() / findOne() up to the await: findOne calls limit(1) and offset(0)
\* first; without a query the promise is rejected and no request is made
SearchExecStart(op) ==
  /\ bk = "search" /\ pc = "idle" /\ nExec < MaxExecs
  /\ \E b0 \in {IF op = "findOne"
                   THEN SearchQueryBuilder_offset(SearchQueryBuilder_limit(sb, 1), 0)
                   ELSE sb} :
        /\ sb' = b0
        /\ IF HasQuery(b0)
             THEN /\ sreq' = getSearchParams(b0)
                  /\ pc' = "awaiting"
                  /\ calls' = 1
                  /\ outcome' = NoOutcome
             ELSE /\ sreq' = sreq
                  /\ pc' = "idle"
                  /\ calls' = 0
                  /\ outcome' = Rejected("missing query")
  /\ repeated' = (op = "exec" /\ ~chainSince /\ nExec > 0)
  /\ chainSince' = FALSE
  /\ curOp' = op
  /\ threw' = ""
  /\ sresp' = NullSearchRes
  /\ nExec' = nExec + 1
  /\ UNCHANGED <<bk, rb, req, limitArg, startArg, endArg, chainArg, rresp, nChain>>
  /\ UNCHANGED <<cvVars, fnVars, cnVars>>

searchExec == SearchExecStart("exec")
searchFindOne == SearchExecStart("findOne")

\* the store settles the search call and the execution finishes
SearchSettle ==
  /\ bk = "search" /\ pc = "awaiting"
  /\ \E resp \in SearchResponses :
       \E o \in {SearchQueryBuilder_execResult(resp)} :
         /\ outcome' = IF curOp = "findOne" THEN SearchQueryBuilder_findOneResult(o) ELSE o
         /\ sresp' = resp
  /\ pc' = "idle"
  /\ UNCHANGED <<bk, rb, sb, curOp, req, sreq, calls, threw, chainSince, repeated, limitArg,
                 startArg, endArg, chainArg, rresp, nChain, nExec>>
  /\ UNCHANGED <<cvVars, fnVars, cnVars>>

Next ==
  \/ NewRange \/ NewSearch
  \/ startWith \/ endAt \/ direction \/ limit \/ select \/ filter
  \/ exec \/ findOne \/ RangeSettle
  \/ searchFilter \/ searchLimit \/ searchOffset \/ searchToken \/ searchSelect
  \/ searchGetTotalCount
  \/ searchExec \/ searchFindOne \/ SearchSettle

Spec == Init /\ [][Next]_vars

\* ------------------------------------------------------------------------
\* The factories and the schema descriptor's functions, each called once
\* on an argument list drawn from the sets below
\* ------------------------------------------------------------------------
Flags == {"unset", "true", "false"}

\* (field, literal) pairs: declared fields with a literal of their type, with
\* null and with no literal, and an undeclared field
LeafArgs ==
  { <<"age", Num(5)>>, <<"age", Null>>, <<"age", Undef>>,
    <<"name", Str(<<"n">>)>>, <<"name", Null>>,
    <<"nope", Num(5)>>, <<"nope", Undef>> }

LeafCalls ==
  { FExpr(m, fv[1], fv[2], pim, lvo, <<>>) :
      m \in DOMAIN ComparatorOf, fv \in LeafArgs, pim \in Flags, lvo \in Flags }

\* the conditions handed to and / or / not
SubCalls ==
  { FExpr("equals", "age", Num(5), "unset", "unset", <<>>),
    FExpr("lessThan", "name", Str(<<"n">>), "false", "unset", <<>>),
    FExpr("or", "", Undef, "unset", "unset",
          << FExpr("notEqual", "age", Num(5), "unset", "true", <<>>),
             FExpr("equals", "name", Str(<<"n">>), "unset", "unset", <<>>) >>) }

CompositeCalls ==
  { FExpr(op, "", Undef, "unset", "unset", args) :
      op \in {"and", "or", "not"},
      args \in {<<>>} \cup {<<a>> : a \in SubCalls}
                \cup {<<a, b>> : a \in SubCalls, b \in SubCalls}
                \cup {<<a, b, a>> : a \in SubCalls, b \in SubCalls} }

\* the values a caller gives for an attribute
AttrValues == {Undef, Null, Num(5), Num(0), Str(<<"n">>), Str(<<>>)}

\* plain objects that mention some of the attribute fields
AttrInputs ==
  UNION { [D -> AttrValues] : D \in SUBSET {"age", "name", "title", "updatedAt"} }

UpdateValues == {Undef, Null, Num(5), Str(<<"n">>)}
UpdateInputs ==
  UNION { [D -> UpdateValues] : D \in SUBSET {"age", "name", "title", "updatedAt"} }
Clock == {MaxInt - 1, MaxInt}

\* the options of a schema under construction
PkOptions ==
  { NoCols, [def |-> TRUE, v |-> <<>>],
    [def |-> TRUE, v |-> <<"category">>],
    [def |-> TRUE, v |-> <<"category", "productId">>],
    [def |-> TRUE, v |-> <<"zzz">>],
    [def |-> TRUE, v |-> <<"category", "zzz">>] }
NoIndexes == [def |-> FALSE, v |-> <<>>]
GsiOptions ==
  { NoIndexes, [def |-> TRUE, v |-> <<>>], [def |-> TRUE, v |-> GSIs],
    [def |-> TRUE, v |-> << [indexName |-> "byAge", primaryKeys |-> <<"age", "yyy">>] >>],
    [def |-> TRUE, v |-> << GSIs[1], [indexName |-> "byX", primaryKeys |-> <<"xxx">>] >>] }
SearchOptions ==
  { NoIndexes, [def |-> TRUE, v |-> searchIndexs],
    [def |-> TRUE, v |-> << [indexName |-> "idx", fieldSchemas |-> <<"name", "www">>] >>],
    [def |-> TRUE, v |-> << searchIndexs[1],
                            [indexName |-> "idx2", fieldSchemas |-> <<"vvv">>] >>] }
SchemaInputs ==
  [primaryKeys : PkOptions, GSIs : GsiOptions, searchIndexes : SearchOptions]

\* key objects that give some of the key fields, and the index named
PkInputs ==
  { [k \in D |-> IF k \in {"category", "name"} THEN Str(<<"k">>) ELSE Num(3)] :
      D \in SUBSET {"category", "productId", "age", "name"} }
GsiNames == {NoName, SomeName(""), SomeName("byAge"), SomeName("byName"), SomeName("nope")}

RangeInputs ==
  [field : {"age"}, from : {Num(1), Str("a")}, to : {Num(MaxInt)},
   options : [includeLower : Flags, includeUpper : Flags]]

FnInit ==
  /\ CvIdle
  /\ QbInit
  /\ CnIdle
  /\ fn_pc = "start"
  /\ fn_out = Undef
  /\ \/ fn_op = "filter" /\ fn_in \in LeafCalls \cup CompositeCalls
     \/ fn_op = "attributes" /\ fn_in \in AttrInputs
     \/ fn_op = "updates"
        /\ fn_in \in [input : UpdateInputs, timestamps : BOOLEAN, now : Clock]
     \/ fn_op = "schema" /\ fn_in \in SchemaInputs
     \/ fn_op = "pks" /\ fn_in \in [input : PkInputs, gsiIndexName : GsiNames]
     \/ fn_op = "range" /\ fn_in \in RangeInputs

\* callback(new FilterFactory(schema))
BuildFilter ==
  /\ fn_pc = "start"
  /\ fn_op = "filter"
  /\ fn_out' = EvalFilter(fn_in)
  /\ fn_pc' = "done"
  /\ UNCHANGED <<fn_op, fn_in, cvVars, qbVars, cnVars>>

ConvertAttributes ==
  /\ fn_pc = "start"
  /\ fn_op = "attributes"
  /\ fn_out' = convertToTablestoreAttributes(fn_in)
  /\ fn_pc' = "done"
  /\ UNCHANGED <<fn_op, fn_in, cvVars, qbVars, cnVars>>

ConvertUpdates ==
  /\ fn_pc = "start"
  /\ fn_op = "updates"
  /\ fn_out' = convertToTablestoreUpdates(fn_in.input, fn_in.timestamps, fn_in.now)
  /\ fn_pc' = "done"
  /\ UNCHANGED <<fn_op, fn_in, cvVars, qbVars, cnVars>>

NewSchema ==
  /\ fn_pc = "start"
  /\ fn_op = "schema"
  /\ fn_out' = DbSchema(difinitionKeys, fn_in)
  /\ fn_pc' = "done"
  /\ UNCHANGED <<fn_op, fn_in, cvVars, qbVars, cnVars>>

ConvertPks ==
  /\ fn_pc = "start"
  /\ fn_op = "pks"
  /\ fn_out' = convertToTablestorePks(fn_in.input, fn_in.gsiIndexName)
  /\ fn_pc' = "done"
  /\ UNCHANGED <<fn_op, fn_in, cvVars, qbVars, cnVars>>

BuildRange ==
  /\ fn_pc = "start"
  /\ fn_op = "range"
  /\ fn_out' = QueryFactory_range(fn_in.field, fn_in.from, fn_in.to, fn_in.options)
  /\ fn_pc' = "done"
  /\ UNCHANGED <<fn_op, fn_in, cvVars, qbVars, cnVars>>

FnNext ==
  \/ BuildFilter \/ ConvertAttributes \/ ConvertUpdates
  \/ NewSchema \/ ConvertPks \/ BuildRange

SpecFn == FnInit /\ [][FnNext]_vars

\* ------------------------------------------------------------------------
\* Properties of the converter, checked under SpecConv
\* ------------------------------------------------------------------------
BaseName(decl) == TypeNameOf(getBaseZodTypeInfo(decl))
Converted == cv_pc \in {"wired", "done"} /\ ~cv_raw /\ ~IsNullish(cv_in)
RoundTripped == cv_pc = "done" /\ ~cv_raw /\ ~IsNullish(cv_in)

\* C1: for every string, boolean or date field and every valid value v of
\* that type, fromWire(toWire(v)) equals v (same epoch milliseconds for a Date).
C1_NonLossyRoundTrip ==
  (RoundTripped /\ BaseName(cv_decl) \in {"ZodString", "ZodBoolean", "ZodDate"})
    => cv_out = cv_in

IsIntField(decl) == BaseName(decl) = "ZodNumber" /\ getBaseZodTypeInfo(decl).isInt

\* C2: for an integer-flagged numeric field and every integer n, toWire(n)
\* is the 64-bit integer cell holding n and fromWire(toWire(n)) equals n.
C2_IntegerRoundTrip ==
  IsIntField(cv_decl) =>
    /\ Converted => cv_wire = Long(cv_in.n)
    /\ RoundTripped => cv_out = cv_in

C2_Witness ==
  /\ RoundTripped /\ IsIntField(cv_decl)
  /\ cv_in = Num(0 - 1000) /\ cv_wire = Long(0 - 1000) /\ cv_out = Num(0 - 1000)

InvalidJsonTexts ==
  { <<"{">>, <<"[", "1", ",", " ", "2">>, <<>>,
    <<"{", Quote, "k", Quote, ":", "0", "1", "}">>, <<"n", "u", "l">>,
    <<"[", "1", ",", "]">>, <<Quote, "a", Backslash, Quote>>, <<"-">> }

CellsOf(boundary, f) == { i \in 1..Len(boundary) : boundary[i].name = f }

\* the wire value of a key field of the products schema: category is a
\* string, productId an integer
KeyWire(f, v) == IF f = "productId" THEN Long(v.n) ELSE v

\* the boundary holds exactly one cell per field of the key order: the
\* sentinel where the partial key has no value, the wire value where it has
Filled(boundary, arg, order, sentinel) ==
  /\ Len(boundary) = Len(order)
  /\ \A k \in 1..Len(order) :
       LET f == order[k]
           want == IF IsNullish(arg[f]) THEN sentinel ELSE KeyWire(f, arg[f])
       IN \E i \in 1..Len(boundary) :
            /\ CellsOf(boundary, f) = {i}
            /\ boundary[i].value = want

\* C4: after startWith(partialKey) every field of the key order that the
\* partial key leaves out is in the start boundary with the minimum
\* sentinel and every field it gives is there with its converted value;
\* after endAt the same holds of the end boundary with the maximum sentinel.
C4_SentinelFill ==
  bk = "range" =>
    /\ startArg.def =>
         /\ rb._startPrimaryKey.def
         /\ Filled(rb._startPrimaryKey.v, startArg.v, PkOrder(rb.indexName), INF_MIN)
    /\ endArg.def =>
         /\ rb._endPrimaryKey.def
         /\ Filled(rb._endPrimaryKey.v, endArg.v, PkOrder(rb.indexName), INF_MAX)

C4_Witness ==
  /\ bk = "range"
  /\ startArg.def /\ startArg.v.category = Undef /\ startArg.v.productId = Num(0)
  /\ rb._startPrimaryKey.v = <<Cell("productId", Long(0)), Cell("category", INF_MIN)>>
  /\ endArg.def /\ endArg.v.category = Str(<<"a">>) /\ endArg.v.productId = Null
  /\ rb._endPrimaryKey.v = <<Cell("category", Str(<<"a">>)), Cell("productId", INF_MAX)>>

\* every field of the key order, in that order, with one sentinel
RECURSIVE AllSentinel(_, _)
AllSentinel(order, sentinel) ==
  IF order = <<>> THEN <<>>
  ELSE <<Cell(Head(order), sentinel)>> \o AllSentinel(Tail(order), sentinel)

\* C5: a request issued while startWith was never called has the start
\* boundary of all key fields at the minimum sentinel, in key order; one
\* issued while endAt was never called has the end boundary of all key
\* fields at the maximum sentinel; each boundary defaults on its own.
C5_OpenInterval ==
  (bk = "range" /\ req.def) =>
    /\ ~startArg.def =>
         req.inclusiveStartPrimaryKey = AllSentinel(PkOrder(rb.indexName), INF_MIN)
    /\ ~endArg.def =>
         req.exclusiveEndPrimaryKey = AllSentinel(PkOrder(rb.indexName), INF_MAX)

C5_Witness ==
  /\ bk = "range" /\ req.def /\ curOp = "exec" /\ ~startArg.def /\ ~endArg.def
  /\ req.inclusiveStartPrimaryKey =
       <<Cell("category", INF_MIN), Cell("productId", INF_MIN)>>
  /\ req.exclusiveEndPrimaryKey =
       <<Cell("category", INF_MAX), Cell("productId", INF_MAX)>>

\* C6: exec does not reset the builder: an exec that follows an execution
\* with no chain call in between issues the same store request as that
\* execution did (and none if that one issued none), on both builders.
C6_ExecKeepsState ==
  [][(repeated' /\ nExec' = nExec + 1) =>
       /\ bk = "range" => (req.def /\ req' = req /\ calls' = calls)
       /\ bk = "search" => (sreq' = sreq /\ calls' = calls)]_vars

C6_Witness ==
  /\ bk = "range" /\ repeated /\ pc = "awaiting" /\ nExec = 2
  /\ req.limit = Num(3) /\ req.columnFilter.kind = "single"

\* C7 as stated: every execution issues exactly one store request.
C7_AlwaysOneRequest == curOp /= "none" => calls = 1

\* C7: an execution of the range builder, and an execution of the search
\* builder whose query is set, issues exactly one store request, whether
\* the store then succeeds or fails, and no later step issues another; an
\* execution of the search builder with no query issues none.
C7_OneRequestUnlessNoQuery ==
  [][IF nExec' = nExec + 1
       THEN calls' = (IF bk = "search" /\ ~sb'._query.def THEN 0 ELSE 1)
       ELSE calls' = calls]_vars

C7_Witness ==
  /\ curOp = "exec" /\ pc = "idle" /\ nExec = 2 /\ calls = 1
  /\ (rresp.fail \/ sresp.fail)
  /\ outcome.how = "resolved" /\ outcome.err /= NullErr

\* C8: a search execution whose response the store does not report as
\* fully succeeded resolves with no error, an empty row list and a total
\* count of 0, whatever rows and count the response carries.
C8_PartialIsEmpty ==
  (bk = "search" /\ curOp = "exec" /\ sresp.def /\ ~sresp.fail /\ ~sresp.isAllSucceeded) =>
    /\ outcome.how = "resolved"
    /\ outcome.err = NullErr
    /\ outcome.data.kind = "page"
    /\ outcome.data.rows = <<>>
    /\ outcome.data.totalCount = 0

C8_Witness ==
  /\ bk = "search" /\ curOp = "exec" /\ sresp.def /\ ~sresp.fail /\ ~sresp.isAllSucceeded
  /\ sresp.rows /= <<>> /\ sresp.totalCounts = Long(9)
  /\ outcome.how = "resolved" /\ outcome.data.rows = <<>> /\ outcome.data.totalCount = 0

\* the response the last execution received, on either builder
LastResp == IF bk = "range" THEN rresp ELSE sresp

\* C9: an exec whose store call failed resolves with the pair [error, null]
\* and an exec whose store call succeeded resolves with [null, result];
\* neither throws.
C9_ResultPair ==
  (bk \in {"range", "search"} /\ curOp = "exec" /\ LastResp.def) =>
    /\ outcome.how = "resolved"
    /\ LastResp.fail => (outcome.err /= NullErr /\ outcome.data.kind = "null")
    /\ ~LastResp.fail => (outcome.err = NullErr /\ outcome.data.kind = "page")

C9_Witness ==
  /\ bk = "range" /\ curOp = "exec" /\ rresp.def /\ rresp.fail
  /\ outcome = Resolved("StoreError", NoData)

\* C10: the range builder's limit is always a positive integer: the count
\* of the last limit(count) call when that count is positive and 20
\* otherwise, 20 also when limit was never called; a request issued with
\* no chain call since carries that limit.
C10_LimitClamp ==
  bk = "range" =>
    LET want == IF limitArg.def /\ GreaterThanZero(limitArg.v) THEN limitArg.v ELSE Num(20) IN
    /\ rb._limit = want
    /\ rb._limit.t = "num" /\ rb._limit.n > 0
    /\ (req.def /\ ~chainSince) => req.limit = rb._limit

\* the elements of a list are pairwise different
NoRepeats(q) == \A i, j \in 1..Len(q) : i /= j => q[i] /= q[j]

\* C11: on the range builder, after select([]) the projection is the full
\* list of declared fields; after select(fields) with a non-empty list it
\* holds exactly the requested fields that are declared, each once (none
\* for an undeclared name alone); a request issued with no chain call
\* since carries that projection; select throws nothing.
C11_SelectProjection ==
  (bk = "range" /\ chainArg.select.def) =>
    LET fields == chainArg.select.v
        got == rb._columnsToGet
    IN /\ got.def
       /\ NoRepeats(got.v)
       /\ Len(fields) = 0 =>
            got.v = <<"category", "productId", "age", "name", "title", "updatedAt">>
       /\ Len(fields) > 0 =>
            SeqToSet(got.v) =
              SeqToSet(fields) \cap {"category", "productId", "age", "name", "title", "updatedAt"}
       /\ (req.def /\ ~chainSince) => req.columnsToGet = got.v
       /\ threw /= "select"

C11_Witness ==
  /\ bk = "range" /\ chainArg.select = [def |-> TRUE, v |-> <<"x">>]
  /\ rb._columnsToGet = [def |-> TRUE, v |-> <<>>]
  /\ req.def /\ ~chainSince /\ req.columnsToGet = <<>>

\* C12: every filter call on the range builder invokes its callback once,
\* and the builder's filter is the tree the last returning callback built,
\* with nothing of an earlier tree; a request issued with no chain call
\* since carries that tree.
C12_FilterReplaces ==
  bk = "range" =>
    /\ chainArg.filter.invoked = chainArg.filter.calls
    /\ ~chainArg.filter.def => rb._filter = NoCond
    /\ chainArg.filter.def => rb._filter = EvalFilter(chainArg.filter.v).cond
    /\ (req.def /\ ~chainSince) => req.columnFilter = rb._filter

C12_Witness ==
  /\ bk = "range" /\ chainArg.filter.returned = 2 /\ chainArg.filter.invoked = 2
  /\ chainArg.filter.v.op = "equals"
  /\ rb._filter = SingleColumnCondition("age", Long(5), "EQUAL", TRUE, TRUE)
  /\ req.def /\ ~chainSince /\ req.columnFilter = rb._filter


\* ------------------------------------------------------------------------
\* Claims about the factories and the schema descriptor's functions
\* ------------------------------------------------------------------------
\* the conditions the arguments of a combinator call evaluate to, in order
ChildrenOf(call) == [i \in 1..Len(call.args) |-> EvalFilter(call.args[i]).cond]

CombinatorCall == fn_pc = "done" /\ fn_op = "filter" /\ fn_in.op \in {"and", "or", "not"}

\* C13: and() and or() with no condition raise a construction error, and
\* with one or more conditions return a composite that holds those
\* conditions in order; not() with one condition returns a NOT composite of
\* that condition, and not() with two conditions is rejected.
C13_CombinatorArity ==
  CombinatorCall =>
    LET n == Len(fn_in.args)
        composite(operator) ==
          /\ fn_out.ok
          /\ fn_out.cond.kind = "composite"
          /\ fn_out.cond.combinator = operator
          /\ fn_out.cond.sub_conditions = ChildrenOf(fn_in)
    IN /\ (fn_in.op \in {"and", "or"} /\ n = 0) => ~fn_out.ok
       /\ (fn_in.op = "and" /\ n >= 1) => composite("AND")
       /\ (fn_in.op = "or" /\ n >= 1) => composite("OR")
       /\ (fn_in.op = "not" /\ n = 1) => composite("NOT")
       /\ (fn_in.op = "not" /\ n = 2) => ~fn_out.ok


Comparators ==
  {"equals", "notEqual", "greaterThan", "greaterThanOrEqual", "lessThan", "lessThanOrEqual"}

LeafCall == fn_pc = "done" /\ fn_op = "filter" /\ fn_in.op \in Comparators

\* C14: every comparison builder throws when the field is not declared in
\* the schema or when the literal is null or absent; otherwise it returns a
\* leaf with that field, the builder's comparator and the encoded literal
\* (a 64-bit integer for an integer field), with passIfMissing and
\* latestVersionOnly both true unless the options say false.
C14_LeafBuilder ==
  LeafCall =>
    LET declared ==
          fn_in.field \in {"category", "productId", "age", "name", "title", "updatedAt"}
        comparator ==
          CASE fn_in.op = "equals" -> "EQUAL"
            [] fn_in.op = "notEqual" -> "NOT_EQUAL"
            [] fn_in.op = "greaterThan" -> "GREATER_THAN"
            [] fn_in.op = "greaterThanOrEqual" -> "GREATER_EQUAL"
            [] fn_in.op = "lessThan" -> "LESS_THAN"
            [] fn_in.op = "lessThanOrEqual" -> "LESS_EQUAL"
        encoded == IF fn_in.field = "age" THEN Long(fn_in.value.n) ELSE fn_in.value
    IN IF ~declared \/ fn_in.value.t \in {"null", "undefined"}
         THEN ~fn_out.ok
         ELSE /\ fn_out.ok
              /\ fn_out.cond.kind = "single"
              /\ fn_out.cond.columnName = fn_in.field
              /\ fn_out.cond.comparator = comparator
              /\ fn_out.cond.columnValue = encoded
              /\ fn_out.cond.passIfMissing = (fn_in.pim /= "false")
              /\ fn_out.cond.latestVersionOnly = (fn_in.lvo /= "false")

C14_Witness ==
  /\ LeafCall
  /\ fn_in = FExpr("greaterThan", "age", Num(5), "false", "unset", <<>>)
  /\ fn_out.ok
  /\ fn_out.cond.columnValue = Long(5)
  /\ ~fn_out.cond.passIfMissing
  /\ fn_out.cond.latestVersionOnly


UpdatesCall == fn_pc = "done" /\ fn_op = "updates"

\* the instructions of the returned patch that name field
InstructionsFor(field) == SelectSeq(fn_out.output, LAMBDA o : o.name = field)

\* a value of the field's declared type, and its wire form
ValidFor(field, value) ==
  IF field \in {"age", "updatedAt"} THEN value.t = "num" ELSE value.t = "str"
WireOf(field, value) ==
  IF field \in {"age", "updatedAt"} THEN Long(value.n) ELSE value

\* what the caller's partial values ask for field: nothing when the field is
\* not mentioned, a delete-all when it is null or undefined, a set of the
\* converted value when it is valid
CallerInstruction(field) ==
  LET input == fn_in.input IN
  /\ field \notin DOMAIN input => InstructionsFor(field) = <<>>
  /\ (field \in DOMAIN input /\ input[field].t \in {"null", "undefined"}) =>
        InstructionsFor(field) = << [type |-> "DELETE_ALL", name |-> field, value |-> Undef] >>
  /\ (field \in DOMAIN input /\ ValidFor(field, input[field])) =>
        InstructionsFor(field) =
          << [type |-> "PUT", name |-> field, value |-> WireOf(field, input[field])] >>

\* C15 as stated: for every attribute field the patch holds no instruction
\* when the partial values do not mention the field, a delete-all when they
\* set it to null or undefined, and a set of the converted value when they
\* give a valid value.
C15_PerFieldPatch ==
  UpdatesCall => \A field \in {"age", "name", "title", "updatedAt"} : CallerInstruction(field)

\* C15 amended: the rule holds for every attribute field except updatedAt on
\* a schema that maintains timestamps; for that field the patch always holds
\* one set instruction with the current time as a 64-bit integer, whatever
\* the partial values say.  A value that fails validation gives no
\* instruction and is named in the error.
C15_PerFieldPatchButTimestamp ==
  UpdatesCall =>
    /\ \A field \in {"age", "name", "title"} : CallerInstruction(field)
    /\ ~fn_in.timestamps => CallerInstruction("updatedAt")
    /\ fn_in.timestamps =>
         InstructionsFor("updatedAt") =
           << [type |-> "PUT", name |-> "updatedAt", value |-> Long(fn_in.now)] >>
    /\ \A field \in {"age", "name", "title", "updatedAt"} :
         (/\ field \in DOMAIN fn_in.input
          /\ fn_in.input[field].t \notin {"null", "undefined"}
          /\ ~ValidFor(field, fn_in.input[field])
          /\ ~(field = "updatedAt" /\ fn_in.timestamps)) =>
           InstructionsFor(field) = <<>> /\ fn_out.isError /\ Includes(fn_out.error, field)

C15_Witness ==
  /\ UpdatesCall
  /\ fn_in.timestamps
  /\ DOMAIN fn_in.input = {"age", "name"}
  /\ fn_in.input["age"] = Num(5)
  /\ fn_in.input["name"] = Null
  /\ fn_out.output = << [type |-> "PUT", name |-> "age", value |-> Long(5)],
                        [type |-> "DELETE_ALL", name |-> "name", value |-> Undef],
                        [type |-> "PUT", name |-> "updatedAt", value |-> Long(fn_in.now)] >>
  /\ ~fn_out.isError


AttributesCall == fn_pc = "done" /\ fn_op = "attributes"

\* the value the input gives for field, undefined when it does not mention it
GivenValue(field) == IF field \in DOMAIN fn_in THEN fn_in[field] ELSE Undef

Falsy(value) ==
  \/ value.t \in {"undefined", "null"}
  \/ value.t = "num" /\ value.n = 0
  \/ value.t = "str" /\ value.s = <<>>

\* the field's declaration accepts value: age and updatedAt are optional
\* integers, name an optional string, title a required string
Accepts(field, value) ==
  \/ field \in {"age", "updatedAt"} /\ value.t \in {"num", "undefined"}
  \/ field = "name" /\ value.t \in {"str", "undefined"}
  \/ field = "title" /\ value.t = "str"

\* the cells of the returned attribute list that name field
CellsFor(field) == SelectSeq(fn_out.output, LAMBDA c : c.name = field)

SchemaCall == fn_pc = "done" /\ fn_op = "schema"

\* every field of the list is among the declared fields
Declared(fields) ==
  \A i \in 1..Len(fields) :
    fields[i] \in {"category", "productId", "age", "name", "title", "updatedAt"}

\* C17: constructing a Schema Descriptor throws when the primary-key list is
\* missing or empty, and when a primary-key field, a secondary-index key
\* field or a search-index field is not declared; hence in every constructed
\* descriptor the primary key is not empty and all fields the primary key,
\* the secondary indexes and the search indexes refer to are declared.
C17_ConstructorValidates ==
  SchemaCall =>
    /\ (~fn_in.primaryKeys.def \/ Len(fn_in.primaryKeys.v) = 0) => fn_out.threw
    /\ ~Declared(fn_in.primaryKeys.v) => fn_out.threw
    /\ (fn_in.GSIs.def /\ \E i \in 1..Len(fn_in.GSIs.v) :
                              ~Declared(fn_in.GSIs.v[i].primaryKeys)) => fn_out.threw
    /\ (fn_in.searchIndexes.def /\ \E i \in 1..Len(fn_in.searchIndexes.v) :
                              ~Declared(fn_in.searchIndexes.v[i].fieldSchemas)) => fn_out.threw
    /\ ~fn_out.threw =>
         /\ Len(fn_out.primaryKeys) > 0
         /\ Declared(fn_out.primaryKeys)
         /\ \A i \in 1..Len(fn_out.GSIs) : Declared(fn_out.GSIs[i].primaryKeys)
         /\ \A i \in 1..Len(fn_out.searchIndexs) : Declared(fn_out.searchIndexs[i].fieldSchemas)

\* a schema whose only undeclared field is listed by its second search index
C17_Witness ==
  /\ SchemaCall
  /\ fn_in.primaryKeys = [def |-> TRUE, v |-> <<"category", "productId">>]
  /\ fn_in.GSIs = [def |-> TRUE, v |-> GSIs]
  /\ fn_in.searchIndexes.def
  /\ Len(fn_in.searchIndexes.v) = 2
  /\ fn_in.searchIndexes.v[2].fieldSchemas = <<"vvv">>
  /\ fn_out.threw
  /\ Len(fn_out.message) = 1

\* a schema with nothing undeclared is constructed
C17_WitnessConstructed ==
  /\ SchemaCall
  /\ ~fn_out.threw
  /\ fn_out.primaryKeys = <<"category", "productId">>
  /\ Len(fn_out.GSIs) = 2
  /\ Len(fn_out.searchIndexs) = 1


PksCall == fn_pc = "done" /\ fn_op = "pks"

\* the key fields of the index named, none when no index has that name
IndexKeys(indexName) ==
  CASE indexName = "byAge" -> <<"age", "category">>
    [] indexName = "byName" -> <<"name", "productId", "category">>
    [] OTHER -> <<>>

\* the order the claim states: the index's key fields, then the base
\* primary-key fields not among them; the base order when no index is named
StatedOrder(gsiIndexName) ==
  IF gsiIndexName.def /\ gsiIndexName.v /= ""
    THEN IndexKeys(gsiIndexName.v)
         \o SelectSeq(<<"category", "productId">>,
                      LAMBDA k : ~Includes(IndexKeys(gsiIndexName.v), k))
    ELSE <<"category", "productId">>

\* C18: toWireKey visits the key fields in the stated order, each once: the
\* fields the input gives come out as the key cells in that order, and the
\* fields it lacks as the missing keys in that order.
C18_KeyOrder ==
  PksCall =>
    LET order == StatedOrder(fn_in.gsiIndexName)
        given == SelectSeq(order, LAMBDA k : k \in DOMAIN fn_in.input)
        lacking == SelectSeq(order, LAMBDA k : k \notin DOMAIN fn_in.input)
    IN /\ [i \in 1..Len(fn_out.output) |-> fn_out.output[i].name] = given
       /\ fn_out.missingKeys = lacking
       /\ NoRepeats([i \in 1..Len(fn_out.output) |-> fn_out.output[i].name]
                      \o fn_out.missingKeys)

C18_Witness ==
  /\ PksCall
  /\ fn_in.gsiIndexName = SomeName("byAge")
  /\ DOMAIN fn_in.input = {"category", "productId", "age"}
  /\ fn_out.output = << [name |-> "age", value |-> Long(3)],
                        [name |-> "category", value |-> Str(<<"k">>)],
                        [name |-> "productId", value |-> Long(3)] >>
  /\ fn_out.missingKeys = <<>>


\* ------------------------------------------------------------------------
\* Claims about the search query fragments
\* ------------------------------------------------------------------------
\* C19: when the fragment the last filter callback returned carries a
\* collapse directive, the search request that exec issues carries that
\* collapse field alongside the query.
C19_CollapseCarried ==
  (/\ bk = "search"
   /\ sreq.def
   /\ ~chainSince
   /\ chainArg.sfilter.def
   /\ chainArg.sfilter.v.fn = "collapse") =>
    sreq.collapse = [def |-> TRUE, v |-> chainArg.sfilter.v.field]

RangeCall == fn_pc = "done" /\ fn_op = "range"

\* C20: the range fragment's includeLower is options.includeLower and its
\* includeUpper is options.includeUpper, each true when the option is not
\* given.
C20_RangeFlags ==
  RangeCall =>
    /\ fn_out.includeLower = (fn_in.options.includeLower /= "false")
    /\ fn_out.includeUpper = (fn_in.options.includeUpper /= "false")

\* C21: a search request issued after select(fields) with a non-empty list
\* asks for the specified columns and names exactly the requested fields
\* that are declared, as the range builder's select does; after select([])
\* or with no select call it asks for all columns.
C21_SearchSelectProjection ==
  (bk = "search" /\ sreq.def /\ ~chainSince) =>
    LET fields == chainArg.select IN
    IF fields.def /\ Len(fields.v) > 0
      THEN /\ sreq.returnType = "RETURN_SPECIFIED"
           /\ sreq.returnNames.def
           /\ SeqToSet(sreq.returnNames.v) = SeqToSet(fields.v) \cap SeqToSet(difinitionKeys)
      ELSE sreq.returnType = "RETURN_ALL"

\* C22: findOne on the range builder is limit(1) followed by exec: it issues
\* one request, whose limit is 1 whatever limit was set before, and leaves
\* the builder's limit at 1; it resolves with the first row the response
\* maps to, with a null second element and no error when the response maps
\* to no row, and with the store's error as the first element when the
\* request fails.
C22_FindOneIsLimitOneExec ==
  (bk = "range" /\ curOp = "findOne") =>
    /\ calls = 1
    /\ req.def /\ req.limit = Num(1)
    /\ ~chainSince => (rb._limit = Num(1) /\ req = getRangeParams(rb))
    /\ outcome.how /= "none" =>
         LET mapped == DropUndefined(MapRows(rresp.rows)) IN
         /\ outcome.how = "resolved"
         /\ rresp.fail => (outcome.err /= NullErr /\ outcome.data = NoData)
         /\ (~rresp.fail /\ Len(mapped) > 0) =>
              /\ outcome.err = NullErr
              /\ outcome.data.kind = "row"
              /\ outcome.data.rows = <<mapped[1]>>
         /\ (~rresp.fail /\ Len(mapped) = 0) =>
              (outcome.err = NullErr /\ outcome.data = NoData)

C22_Witness ==
  /\ bk = "range" /\ curOp = "findOne" /\ nExec = 2 /\ ~chainSince
  /\ rb._limit = Num(1) /\ req.limit = Num(1)
  /\ Len(rresp.rows) = 3
  /\ outcome.how = "resolved" /\ outcome.err = NullErr
  /\ outcome.data.kind = "row" /\ outcome.data.rows = <<convertToJs(RowA)>>

C22_WitnessNoMatch ==
  /\ bk = "range" /\ curOp = "findOne" /\ limitArg = SomeCount(Num(1))
  /\ rresp = RangeResp(<<>>, NoPk)
  /\ outcome = Resolved(NullErr, NoData)

\* C23: the request a findOne on the search builder issues has limit 1 and
\* offset 0 whatever limit and offset were set before, and findOne issues
\* it whenever a query is set; for a response that fully succeeded findOne
\* resolves with the first mapped row, or with a null second element and
\* no error when there is no row; a response that did not fully succeed
\* gives that same no-match result, not an error.
C23_SearchFindOne ==
  (bk = "search" /\ curOp = "findOne") =>
    /\ (~chainSince /\ sb._query.def) => calls = 1
    /\ calls = 1 =>
         /\ sreq.def /\ sreq.limit = 1 /\ sreq.offset = 0
         /\ (outcome.how /= "none" /\ ~sresp.fail) =>
              LET mapped == MapRows(sresp.rows) IN
              /\ outcome.how = "resolved" /\ outcome.err = NullErr
              /\ ~sresp.isAllSucceeded => outcome.data = NoData
              /\ (sresp.isAllSucceeded /\ Len(mapped) = 0) => outcome.data = NoData
              /\ (sresp.isAllSucceeded /\ Len(mapped) > 0) =>
                   (outcome.data.kind = "row" /\ outcome.data.rows = <<mapped[1]>>)

C23_Witness ==
  /\ bk = "search" /\ curOp = "findOne" /\ calls = 1 /\ nExec = 2
  /\ sreq.limit = 1 /\ sreq.offset = 0
  /\ sresp = SearchResp(<<RowA>>, Long(9), SomeName("tok2"), FALSE)
  /\ outcome = Resolved(NullErr, NoData)

C23_WitnessRow ==
  /\ bk = "search" /\ curOp = "findOne" /\ calls = 1
  /\ Len(sresp.rows) = 2 /\ sresp.isAllSucceeded
  /\ outcome.data.kind = "row" /\ outcome.data.rows = <<convertToJs(RowA)>>

\* ------------------------------------------------------------------------
\* The connections as a state machine: Connection objects are constructed
\* from a configuration and the environment, and getClient is called on them
\* ------------------------------------------------------------------------
ConfigInputs ==
  [endpoint : {"undefined", "", "https://e"}, accessKeyId : {"undefined", "ak"},
   secretAccessKey : {"sk"}, instancename : {"undefined", "inst"}]
EnvInputs ==
  { [endpoint |-> "undefined", accessKeyId |-> "undefined", secretAccessKey |-> "undefined",
     instancename |-> "undefined"],
    [endpoint |-> "https://env", accessKeyId |-> "envAk", secretAccessKey |-> "envSk",
     instancename |-> "envInst"] }

ConnInit == CvIdle /\ QbInit /\ FnIdle /\ CnIdle

\* new Connection(config)
NewConnection ==
  /\ \E c \in ConnIds :
       /\ conns[c].state = "none"
       /\ \E config \in ConfigInputs, env \in EnvInputs :
            conns' = [conns EXCEPT ![c] = Connection(config, env)]
  /\ UNCHANGED clients
  /\ UNCHANGED <<cvVars, qbVars, fnVars>>

\* connection.getClient()
getClient ==
  /\ \E c \in ConnIds :
       /\ conns[c].state = "ok"
       /\ conns[c].calls < MaxCalls
       /\ \E r \in {Connection_getClient(conns[c], clients + 1)} :
            /\ conns' = [conns EXCEPT ![c] = r]
            /\ clients' = clients + (r.made - conns[c].made)
  /\ UNCHANGED <<cvVars, qbVars, fnVars>>

ConnNext == NewConnection \/ getClient

SpecConn == ConnInit /\ [][ConnNext]_vars

\* C24: a Connection has no client before its first getClient call (and no
\* client exists while no call was made on any Connection); once getClient
\* was called, the Connection has constructed exactly one client, however
\* many calls were made, and every call returned that one instance.
C24_LazySingleClient ==
  /\ (\A c \in ConnIds : conns[c].calls = 0) => clients = 0
  /\ \A c \in ConnIds :
       /\ conns[c].calls = 0 => (conns[c].client = 0 /\ conns[c].made = 0)
       /\ conns[c].calls > 0 =>
            /\ conns[c].made = 1
            /\ conns[c].client /= 0
            /\ conns[c].returned = {conns[c].client}

C24_Witness ==
  \E c, d \in ConnIds :
    /\ c /= d
    /\ conns[c].calls >= 2 /\ conns[c].made = 1 /\ conns[c].returned = {conns[c].client}
    /\ conns[d].state = "ok" /\ conns[d].calls = 0 /\ conns[d].client = 0
    /\ clients = 1

\* the key fields a boundary lists, in the order it lists them
FieldsOf(boundary) == [i \in 1..Len(boundary) |-> boundary[i].name]

\* C25: after startWith or endAt with any partial key, a prefix of the key
\* order or not, the boundary lists the fields of the applicable key order,
\* each once, in that order.
C25_BoundaryInKeyOrder ==
  bk = "range" =>
    /\ startArg.def => FieldsOf(rb._startPrimaryKey.v) = PkOrder(rb.indexName)
    /\ endArg.def => FieldsOf(rb._endPrimaryKey.v) = PkOrder(rb.indexName)

\* C26: the request of an execution is the one built from the builder's
\* fields at the step that starts the execution (after findOne's own limit
\* and offset calls and exec's defaults); while the execution awaits the
\* store, no chain call on the builder and no other step changes the
\* request that was issued; a chain call made meanwhile changes the builder,
\* from which the next execution builds its request.
C26_RequestFixedAtExec ==
  [][/\ (nExec' = nExec + 1 /\ bk = "range") =>
          req' = getRangeParams(RangeQueryBuilder_execDefaults(
                   IF curOp' = "findOne" THEN RangeQueryBuilder_limit(rb, Num(1)) ELSE rb))
     /\ (nExec' = nExec + 1 /\ bk = "search" /\ calls' = 1) =>
          sreq' = getSearchParams(
                    IF curOp' = "findOne"
                      THEN SearchQueryBuilder_offset(SearchQueryBuilder_limit(sb, 1), 0)
                      ELSE sb)
     /\ (pc = "awaiting" /\ nExec' = nExec) => (req' = req /\ sreq' = sreq)]_vars

C26_Witness ==
  /\ bk = "range" /\ pc = "awaiting" /\ chainSince
  /\ limitArg = SomeCount(Num(3)) /\ rb._limit = Num(3)
  /\ req.def /\ req.limit = Num(DEFAULT_LIMIT)

C26_WitnessSearch ==
  /\ bk = "search" /\ pc = "awaiting" /\ chainSince
  /\ sb._token = SomeName("tok1") /\ sreq.def /\ sreq.token = NoName

\* C27: an execution (exec or findOne) of a search builder on which no
\* filter call has returned issues no store request, and the promise it
\* returns is rejected: it does not resolve with an [error, null] pair.
C27_NoQueryRejects ==
  (bk = "search" /\ curOp /= "none" /\ ~chainArg.sfilter.def) =>
    /\ calls = 0
    /\ ~sreq.def
    /\ pc = "idle"
    /\ ~chainSince => (outcome.how = "rejected" /\ outcome.data = NoData)

C27_Witness ==
  /\ bk = "search" /\ curOp = "findOne" /\ nChain > 0 /\ ~chainSince
  /\ ~chainArg.sfilter.def /\ ~sb._query.def
  /\ calls = 0 /\ ~sreq.def
  /\ outcome = Rejected("missing query")

\* C28: when a search exec gets a response that fully succeeded and carries
\* a continuation token, the result it resolves with has that token as its
\* nextToken.
C28_TokenReturned ==
  (bk = "search" /\ curOp = "exec" /\ outcome.how /= "none" /\ ~sresp.fail
     /\ sresp.isAllSucceeded /\ sresp.nextToken.def) =>
    /\ outcome.how = "resolved" /\ outcome.err = NullErr
    /\ outcome.data.nextToken = sresp.nextToken

\* C29: Model.findByIndex with the name of a secondary index the schema
\* defines constructs a range builder whose requests have that name as
\* their table name; with a name the schema does not define the constructor
\* throws 'GSI not found'; a builder constructed with no name sends the
\* table's name.
C29_FindByIndex ==
  /\ chainArg.index.def =>
       IF \E i \in 1..Len(GSIs) : GSIs[i].indexName = chainArg.index.v
         THEN /\ bk = "range"
              /\ rb.indexName = chainArg.index
              /\ req.def => req.tableName = chainArg.index.v
         ELSE bk = "ctorThrew" /\ threw = "GSI not found"
  /\ (bk = "range" /\ ~chainArg.index.def /\ req.def) => req.tableName = tableName

\* C30: a filter call on the range builder whose callback throws (a
\* combinator with no condition, an unknown field, a null literal) throws
\* synchronously, once, and changes no field of the builder and no request;
\* an exec or findOne that follows it sends the tree of the last filter call
\* that returned, or no filter when none returned.
C30_ThrowingFilterKeepsState ==
  [][/\ (bk = "range" /\ nChain' = nChain + 1
           /\ chainArg'.filter.calls = chainArg.filter.calls + 1
           /\ chainArg'.filter.returned = chainArg.filter.returned) =>
          /\ threw' = "filter"
          /\ chainArg'.filter.invoked = chainArg.filter.invoked + 1
          /\ rb' = rb
          /\ req' = req
     /\ (bk = "range" /\ threw = "filter" /\ nExec' = nExec + 1) =>
          req'.columnFilter =
            (IF chainArg.filter.def THEN EvalFilter(chainArg.filter.v).cond ELSE NoCond)]_vars

C30_Witness ==
  /\ bk = "range" /\ threw = "filter"
  /\ chainArg.filter.calls = 2 /\ chainArg.filter.returned = 1
  /\ chainArg.filter.v.op = "equals"
  /\ rb._filter = SingleColumnCondition("age", Long(5), "EQUAL", TRUE, TRUE)

====
